---- MODULE Spec2Model ----
(***************************************************************************)
(* Entity graph store, dependency traversal and hybrid search of the       *)
(* GraphCodeBERT Java code embedding system.                               *)
(*                                                                         *)
(*   src/src/graphcodebert_embedder.py  GraphCodeBERTEmbedder              *)
(*   src/src/main.py                    JavaCodeEmbeddingSystem            *)
(*                                                                         *)
(* call_graph is a networkx DiGraph.  It is modelled by what the library   *)
(* keeps: the vertices in insertion order and the edges in insertion       *)
(* order, one edge per (source, target) pair, whose data a later add_edge  *)
(* of the same pair replaces in place.  Iteration over predecessors and    *)
(* successors follows edge insertion order, as the adjacency dicts do.     *)
(***************************************************************************)
EXTENDS Integers, Sequences, FiniteSets, TLC

VARIABLES
    code_nodes,      \* GraphCodeBERTEmbedder.code_nodes: id -> CodeNode
    code_relations,  \* GraphCodeBERTEmbedder.code_relations: list of CodeRelation
    call_graph,      \* GraphCodeBERTEmbedder.call_graph: nx.DiGraph
    ret,             \* the outcome of the last handler that ran
    pc,              \* position inside a running traversal loop
    frame,           \* locals of the running traversal loop
    encode_calls,    \* number of encode_code invocations made by the last handler
    faiss,           \* the FAISSInterface instance (vector_db of a "faiss" system)
    chroma,          \* the ChromaDBInterface instance's collection
    disk             \* the files: the snapshot, the FAISS index and metadata files

vars == <<code_nodes, code_relations, call_graph, ret, pc, frame, encode_calls,
          faiss, chroma, disk>>

backend_vars == <<faiss, chroma, disk>>

----------------------------------------------------------------------------
(* Bounds and input sets                                                   *)

MaxRelations == 3
MaxDepth == 3
MaxNodes == 2
MaxTopK == 2
MaxSlots == 3
MaxBatch == 2
MaxStored == 2

Ids == {"A", "B", "C", "D"}

None == "None"

\* None in a slot whose other values are records
Nil == [nil |-> TRUE]

\* None in a node's embedding slot, whose other values are vectors
NoVector == <<>>

Range(s) == {s[i] : i \in DOMAIN s}

NoDuplicates(s) == \A i, j \in DOMAIN s : s[i] = s[j] => i = j

\* CodeRelation(source_id, target_id, relation_type, confidence); the
\* confidence is kept in hundredths.
CodeRelation(s, t, ty, c) ==
    [source_id |-> s, target_id |-> t, relation_type |-> ty, confidence |-> c]

\* CodeNode(id, file_path, node_type, name, code, start_line, end_line),
\* embedding = None until add_code_node sets it.
CodeNode(id, file_path, node_type, name, code, start_line, end_line) ==
    [id |-> id, file_path |-> file_path, node_type |-> node_type, name |-> name,
     code |-> code, start_line |-> start_line, end_line |-> end_line,
     embedding |-> NoVector]

\* Code texts, and the vector the embedding model gives each (a fixed
\* function of the text: the model runs in eval mode under no_grad).
Codes == {"c0", "c1", "c2", "c3"}

\* The nodes the search specification draws add_code_node's argument from.
NodeInputs ==
    {CodeNode(id, "F.java", "method", id, code, 1, 9) :
        id \in {"A", "B", "C"}, code \in Codes}

\* The relations the traversal specifications draw add_code_relation's
\* argument from: the chain A -> B -> C -> D, the back edge closing a
\* 3-cycle, a self-loop, and a shortcut that makes a diamond.
RelationInputs ==
    { CodeRelation("A", "B", "call", 80),
      CodeRelation("B", "C", "call", 80),
      CodeRelation("C", "D", "call", 80),
      CodeRelation("C", "A", "call", 80),
      CodeRelation("A", "A", "call", 80),
      CodeRelation("A", "C", "reference", 90) }

----------------------------------------------------------------------------
(* networkx.DiGraph                                                        *)

EmptyGraph == [node |-> <<>>, adj |-> <<>>]

\* `n in G`
HasNode(G, n) == \E i \in DOMAIN G.node : G.node[i] = n

HasEdge(G, u, v) ==
    \E i \in DOMAIN G.adj : G.adj[i].source = u /\ G.adj[i].target = v

\* G.add_node(n, **attr): a vertex already present keeps its position.
GraphAddNode(G, n) ==
    IF HasNode(G, n) THEN G ELSE [G EXCEPT !.node = Append(@, n)]

\* GraphAddEdge that leaves the vertex list alone.
GraphAddEdgeNoVertices(G, u, v, ty, c) ==
    LET e == [source |-> u, target |-> v, relation_type |-> ty, confidence |-> c]
    IN  IF HasEdge(G, u, v)
        THEN [G EXCEPT !.adj =
                 [i \in DOMAIN G.adj |->
                     IF G.adj[i].source = u /\ G.adj[i].target = v
                     THEN e ELSE G.adj[i]]]
        ELSE [G EXCEPT !.adj = Append(@, e)]

\* G.add_edge(u, v, **attr): adds u and v as vertices when absent; an edge
\* already present keeps its position and has its data replaced.
GraphAddEdge(G, u, v, ty, c) ==
    LET G1 == GraphAddNode(GraphAddNode(G, u), v)
        e  == [source |-> u, target |-> v, relation_type |-> ty, confidence |-> c]
    IN  IF HasEdge(G1, u, v)
        THEN [G1 EXCEPT !.adj =
                 [i \in DOMAIN G1.adj |->
                     IF G1.adj[i].source = u /\ G1.adj[i].target = v
                     THEN e ELSE G1.adj[i]]]
        ELSE [G1 EXCEPT !.adj = Append(@, e)]

\* list(G.successors(n)) for n in G
Successors(G, n) ==
    LET es == SelectSeq(G.adj, LAMBDA e : e.source = n)
    IN  [i \in DOMAIN es |-> es[i].target]

\* list(G.predecessors(n)) for n in G
Predecessors(G, n) ==
    LET es == SelectSeq(G.adj, LAMBDA e : e.target = n)
    IN  [i \in DOMAIN es |-> es[i].source]

\* G.number_of_edges()
NumberOfEdges(G) == Len(G.adj)

----------------------------------------------------------------------------
(* Outcomes of a handler: a returned value, or an exception that leaves it *)

Returned(v) == [raised |-> None, value |-> v]
Raised(e) == [raised |-> e, value |-> None]

----------------------------------------------------------------------------
(* get_upstream_dependencies / get_downstream_dependencies                 *)

\* The locals after lines 229-231 / 265-267.  `expanded` records, in order,
\* the vertices whose neighbours the loop has read.
InitialFrame(node_id) ==
    [queue |-> <<<<node_id, 0>>>>, visited |-> {}, found |-> {}, expanded |-> <<>>]

\* LoopBody with the depth guard off by one: `depth > max_depth`.
LoopBodyDepthOffByOne(f, max_depth, neighbours) ==
    LET current == Head(f.queue)[1]
        depth   == Head(f.queue)[2]
        rest    == Tail(f.queue)
    IN  IF current \in f.visited \/ depth > max_depth
        THEN [f EXCEPT !.queue = rest]
        ELSE LET visited1 == f.visited \cup {current}
                 fresh == SelectSeq(neighbours, LAMBDA n : n \notin visited1)
             IN  [queue    |-> rest \o [i \in DOMAIN fresh |-> <<fresh[i], depth + 1>>],
                  visited  |-> visited1,
                  found    |-> f.found \cup Range(neighbours),
                  expanded |-> Append(f.expanded, current)]

\* LoopBody without the `current in visited` test at the head of the loop.
LoopBodyNoVisitedTest(f, max_depth, neighbours) ==
    LET current == Head(f.queue)[1]
        depth   == Head(f.queue)[2]
        rest    == Tail(f.queue)
    IN  IF depth >= max_depth
        THEN [f EXCEPT !.queue = rest]
        ELSE LET visited1 == f.visited \cup {current}
                 fresh == SelectSeq(neighbours, LAMBDA n : n \notin visited1)
             IN  [queue    |-> rest \o [i \in DOMAIN fresh |-> <<fresh[i], depth + 1>>],
                  visited  |-> visited1,
                  found    |-> f.found \cup Range(neighbours),
                  expanded |-> Append(f.expanded, current)]

\* LoopBody that follows only the first neighbour the graph lists.
LoopBodyFirstNeighbourOnly(f, max_depth, neighbours) ==
    LET current == Head(f.queue)[1]
        depth   == Head(f.queue)[2]
        rest    == Tail(f.queue)
    IN  IF current \in f.visited \/ depth >= max_depth
        THEN [f EXCEPT !.queue = rest]
        ELSE LET visited1 == f.visited \cup {current}
                 first == IF neighbours = <<>> THEN <<>> ELSE <<Head(neighbours)>>
                 fresh == SelectSeq(first, LAMBDA n : n \notin visited1)
             IN  [queue    |-> rest \o [i \in DOMAIN fresh |-> <<fresh[i], depth + 1>>],
                  visited  |-> visited1,
                  found    |-> f.found \cup Range(first),
                  expanded |-> Append(f.expanded, current)]

\* One iteration of the while loop, given the neighbour list of the vertex
\* at the head of the queue.
LoopBody(f, max_depth, neighbours) ==
    LET current == Head(f.queue)[1]
        depth   == Head(f.queue)[2]
        rest    == Tail(f.queue)
    IN  IF current \in f.visited \/ depth >= max_depth
        THEN [f EXCEPT !.queue = rest]
        ELSE LET visited1 == f.visited \cup {current}
                 fresh == SelectSeq(neighbours, LAMBDA n : n \notin visited1)
             IN  [queue    |-> rest \o [i \in DOMAIN fresh |-> <<fresh[i], depth + 1>>],
                  visited  |-> visited1,
                  found    |-> f.found \cup Range(neighbours),
                  expanded |-> Append(f.expanded, current)]

UpstreamIteration(G, max_depth, f) ==
    LoopBody(f, max_depth, Predecessors(G, Head(f.queue)[1]))

\* DownstreamIteration reading the predecessors instead of the successors.
DownstreamIterationWrongDirection(G, max_depth, f) ==
    LoopBody(f, max_depth, Predecessors(G, Head(f.queue)[1]))

DownstreamIteration(G, max_depth, f) ==
    LoopBody(f, max_depth, Successors(G, Head(f.queue)[1]))

RECURSIVE UpstreamLoop(_, _, _)
UpstreamLoop(G, max_depth, f) ==
    IF f.queue = <<>> THEN f
    ELSE UpstreamLoop(G, max_depth, UpstreamIteration(G, max_depth, f))

RECURSIVE DownstreamLoop(_, _, _)
DownstreamLoop(G, max_depth, f) ==
    IF f.queue = <<>> THEN f
    ELSE DownstreamLoop(G, max_depth, DownstreamIteration(G, max_depth, f))

\* get_upstream_dependencies without the `node_id not in self.call_graph`
\* guard: the first predecessors() call raises on an unknown vertex.
get_upstream_dependencies_unguarded(G, node_id, max_depth) ==
    IF ~HasNode(G, node_id)
    THEN (IF max_depth > 0 THEN Raised("NetworkXError") ELSE Returned({}))
    ELSE Returned(UpstreamLoop(G, max_depth, InitialFrame(node_id)).found)

\* get_upstream_dependencies with the start vertex discarded from the result.
get_upstream_dependencies_discard_start(G, node_id, max_depth) ==
    IF ~HasNode(G, node_id) THEN Returned({})
    ELSE Returned(UpstreamLoop(G, max_depth, InitialFrame(node_id)).found \ {node_id})

\* The handlers return list(upstream) / list(downstream): a list of the
\* set's elements in an unspecified order.  The outcome's value is that set.
get_upstream_dependencies(G, node_id, max_depth) ==
    IF ~HasNode(G, node_id) THEN Returned({})
    ELSE Returned(UpstreamLoop(G, max_depth, InitialFrame(node_id)).found)

get_downstream_dependencies(G, node_id, max_depth) ==
    IF ~HasNode(G, node_id) THEN Returned({})
    ELSE Returned(DownstreamLoop(G, max_depth, InitialFrame(node_id)).found)

----------------------------------------------------------------------------
(* get_call_path: nx.shortest_path(G, source, target), which for an        *)
(* unweighted graph with both ends given is bidirectional_shortest_path    *)

Unset == "Unset"

\* The (v, w) pairs the nested loops `for v in this_level: for w in adj[v]`
\* visit, in order.
RECURSIVE LevelPairs(_, _, _)
LevelPairs(G, this_level, forward) ==
    IF this_level = <<>> THEN <<>>
    ELSE LET v  == Head(this_level)
             ws == IF forward THEN Successors(G, v) ELSE Predecessors(G, v)
         IN  [i \in DOMAIN ws |-> <<v, ws[i]>>] \o LevelPairs(G, Tail(this_level), forward)

\* One level of the search from one side.  `mine` is the side's parent map
\* (pred when searching forward, succ when searching backward), `other` the
\* opposite side's.  Stops at the first w the opposite side has reached.
RECURSIVE ScanLevel(_, _, _, _, _)
ScanLevel(pairs, i, mine, other, fringe) ==
    IF i > Len(pairs) THEN [map |-> mine, fringe |-> fringe, found |-> None]
    ELSE LET v == pairs[i][1]
             w == pairs[i][2]
             isNew   == mine[w] = Unset
             mine1   == IF isNew THEN [mine EXCEPT ![w] = v] ELSE mine
             fringe1 == IF isNew THEN Append(fringe, w) ELSE fringe
         IN  IF other[w] # Unset
             THEN [map |-> mine1, fringe |-> fringe1, found |-> w]
             ELSE ScanLevel(pairs, i + 1, mine1, other, fringe1)

\* _bidirectional_pred_succ: the while loop over the two fringes.
RECURSIVE BidirectionalPredSucc(_, _, _, _, _)
BidirectionalPredSucc(G, pred, succ, forward_fringe, reverse_fringe) ==
    IF forward_fringe = <<>> \/ reverse_fringe = <<>>
    THEN [found |-> None, pred |-> pred, succ |-> succ]
    ELSE IF Len(forward_fringe) <= Len(reverse_fringe)
         THEN LET r == ScanLevel(LevelPairs(G, forward_fringe, TRUE), 1, pred, succ, <<>>)
              IN  IF r.found # None
                  THEN [found |-> r.found, pred |-> r.map, succ |-> succ]
                  ELSE BidirectionalPredSucc(G, r.map, succ, r.fringe, reverse_fringe)
         ELSE LET r == ScanLevel(LevelPairs(G, reverse_fringe, FALSE), 1, succ, pred, <<>>)
              IN  IF r.found # None
                  THEN [found |-> r.found, pred |-> pred, succ |-> r.map]
                  ELSE BidirectionalPredSucc(G, pred, r.map, forward_fringe, r.fringe)

\* The chain w, parent[w], parent[parent[w]], ... up to the root.
RECURSIVE FollowParents(_, _)
FollowParents(parent, w) ==
    IF w = None THEN <<>> ELSE <<w>> \o FollowParents(parent, parent[w])

Reverse(s) == [i \in DOMAIN s |-> s[Len(s) + 1 - i]]

\* ShortestPath joining the two parent chains without reversing the first.
ShortestPathUnreversed(G, source, target) ==
    IF ~HasNode(G, source) \/ ~HasNode(G, target) THEN Raised("NodeNotFound")
    ELSE IF source = target THEN Returned(<<source>>)
    ELSE LET vs == Range(G.node)
             r  == BidirectionalPredSucc(G,
                       [n \in vs |-> IF n = source THEN None ELSE Unset],
                       [n \in vs |-> IF n = target THEN None ELSE Unset],
                       <<source>>, <<target>>)
         IN  IF r.found = None THEN Raised("NetworkXNoPath")
             ELSE Returned(FollowParents(r.pred, r.found)
                           \o Tail(FollowParents(r.succ, r.found)))

\* nx.shortest_path: NodeNotFound when an end is no vertex, NetworkXNoPath
\* when the fringes run dry, otherwise the path through the meeting vertex.
ShortestPath(G, source, target) ==
    IF ~HasNode(G, source) \/ ~HasNode(G, target) THEN Raised("NodeNotFound")
    ELSE IF source = target THEN Returned(<<source>>)
    ELSE LET vs == Range(G.node)
             r  == BidirectionalPredSucc(G,
                       [n \in vs |-> IF n = source THEN None ELSE Unset],
                       [n \in vs |-> IF n = target THEN None ELSE Unset],
                       <<source>>, <<target>>)
         IN  IF r.found = None THEN Raised("NetworkXNoPath")
             ELSE Returned(Reverse(FollowParents(r.pred, r.found))
                           \o Tail(FollowParents(r.succ, r.found)))

\* try: return nx.shortest_path(...)  except nx.NetworkXNoPath: return []
get_call_path(G, source_id, target_id) ==
    LET path == ShortestPath(G, source_id, target_id)
    IN  IF path.raised = "NetworkXNoPath" THEN Returned(<<>>) ELSE path

----------------------------------------------------------------------------
(* analyze_impact                                                          *)

\* analyze_impact with the transitive parts cut at depth 2.
analyze_impact_depth_2(G, node_id) ==
    LET upstream   == get_upstream_dependencies(G, node_id, 2)
        downstream == get_downstream_dependencies(G, node_id, 2)
    IN  IF ~HasNode(G, node_id) THEN Raised("NetworkXError")
        ELSE Returned([upstream       |-> upstream.value,
                       downstream     |-> downstream.value,
                       direct_callers |-> Predecessors(G, node_id),
                       direct_callees |-> Successors(G, node_id)])

\* G.predecessors(n) / G.successors(n) raise NetworkXError when n is no
\* vertex of G; the dict literal is evaluated entry by entry.
analyze_impact(G, node_id) ==
    LET upstream   == get_upstream_dependencies(G, node_id, 3)
        downstream == get_downstream_dependencies(G, node_id, 3)
    IN  IF upstream.raised # None THEN upstream
        ELSE IF downstream.raised # None THEN downstream
        ELSE IF ~HasNode(G, node_id) THEN Raised("NetworkXError")
        ELSE Returned([upstream       |-> upstream.value,
                       downstream     |-> downstream.value,
                       direct_callers |-> Predecessors(G, node_id),
                       direct_callees |-> Successors(G, node_id)])

----------------------------------------------------------------------------
(* Embedding and local similarity ranking                                  *)

\* encode_code: text -> vector.
encode_code(code) ==
    CASE code = "c0" -> <<0, 0>>
      [] code = "c1" -> <<1, 0>>
      [] code = "c2" -> <<3, 4>>
      [] code = "c3" -> <<-1, 0>>

\* np.dot
Dot(vec1, vec2) == vec1[1] * vec2[1] + vec1[2] * vec2[2]

\* np.linalg.norm, exact on the vectors above
Norm(vec) == CHOOSE n \in 0..(Dot(vec, vec)) : n * n = Dot(vec, vec)

\* _cosine_similarity, in hundredths (exact on the vectors above).
CosineSimilarity(vec1, vec2) ==
    LET dot_product == Dot(vec1, vec2)
        norm1 == Norm(vec1)
        norm2 == Norm(vec2)
    IN  IF norm1 = 0 \/ norm2 = 0 THEN 0
        ELSE (dot_product * 100) \div (norm1 * norm2)

\* list.sort(key=lambda x: x[1], reverse=True): stable, so pairs of equal
\* similarity keep their order.  Insert x after every element >= it.
RECURSIVE InsertDescending(_, _)
InsertDescending(sorted, x) ==
    IF sorted = <<>> THEN <<x>>
    ELSE IF Head(sorted)[2] >= x[2]
         THEN <<Head(sorted)>> \o InsertDescending(Tail(sorted), x)
         ELSE <<x>> \o sorted

RECURSIVE SortDescending(_)
SortDescending(pairs) ==
    IF pairs = <<>> THEN <<>>
    ELSE InsertDescending(SortDescending(SubSeq(pairs, 1, Len(pairs) - 1)),
                          pairs[Len(pairs)])

\* s[:k] for k >= 0
Prefix(s, k) == SubSeq(s, 1, IF k < Len(s) THEN k ELSE Len(s))

\* get_similar_nodes: (id, similarity) of the nodes that carry a vector, in
\* dict order, sorted by similarity, cut to top_k.
get_similar_nodes(nodes, query_code, top_k) ==
    LET query_embedding == encode_code(query_code)
        embedded == SelectSeq(nodes, LAMBDA n : n.embedding # NoVector)
        similarities ==
            [i \in DOMAIN embedded |->
                <<embedded[i].id, CosineSimilarity(query_embedding, embedded[i].embedding)>>]
    IN  Prefix(SortDescending(similarities), top_k)

\* code_nodes.get(node_id)
NodeIndex(nodes, node_id) ==
    IF \E i \in DOMAIN nodes : nodes[i].id = node_id
    THEN CHOOSE i \in DOMAIN nodes : nodes[i].id = node_id
    ELSE 0

\* PutNode that never replaces: a list append.
PutNodeAppend(nodes, node) == Append(nodes, node)

\* code_nodes[node.id] = node: a key already present keeps its position.
PutNode(nodes, node) ==
    IF NodeIndex(nodes, node.id) = 0 THEN Append(nodes, node)
    ELSE [nodes EXCEPT ![NodeIndex(nodes, node.id)] = node]

\* The hits of search_similar_code: each local result joined with its node.
Hydrate(nodes, results) ==
    LET known == SelectSeq(results, LAMBDA r : NodeIndex(nodes, r[1]) # 0)
    IN  [i \in DOMAIN known |->
            LET node == nodes[NodeIndex(nodes, known[i][1])]
            IN  [node_id    |-> known[i][1],
                 similarity |-> known[i][2],
                 node_type  |-> node.node_type,
                 name       |-> node.name,
                 file_path  |-> node.file_path,
                 code       |-> node.code]]

\* search_similar_code that hydrates what the backend answered.
search_similar_code_backend_ranking(nodes, query_code, top_k, db_out) ==
    IF db_out.raised # None
    THEN [out |-> db_out, encode_calls |-> 2]
    ELSE [out |-> Returned(Hydrate(nodes, db_out.value)), encode_calls |-> 2]

\* search_similar_code.  db_out: the outcome of self.vector_db.search on this
\* call; an exception propagates, a return value is assigned and never
\* read.  The outcome comes with the number of encode_code invocations made.
search_similar_code(nodes, query_code, top_k, db_out) ==
    LET embedder_results == get_similar_nodes(nodes, query_code, top_k)
        query_embedding  == encode_code(query_code)
    IN  IF db_out.raised # None
        THEN [out |-> db_out, encode_calls |-> 2]
        ELSE [out |-> Returned(Hydrate(nodes, embedder_results)), encode_calls |-> 2]

----------------------------------------------------------------------------
(* Python dicts as functions on their key sets                             *)

EmptyDict == <<>>

DictPut(d, k, v) == [x \in DOMAIN d \cup {k} |-> IF x = k THEN v ELSE d[x]]

DictDel(d, k) == [x \in DOMAIN d \ {k} |-> d[x]]

\* str(k) for the slot numbers the bounds allow
IntToStr(k) == <<"0", "1", "2", "3", "4", "5", "6", "7", "8", "9">>[k + 1]

\* int(s), its inverse
StrToInt(str) == CHOOSE k \in 0..9 : IntToStr(k) = str

----------------------------------------------------------------------------
(* FAISSInterface (src/src/vector_database.py)                             *)

\* The files a process can find: None where a file does not exist.
NoFiles == [snapshot |-> Nil, index_file |-> Nil, metadata_file |-> Nil]

\* __init__ with no index or metadata file to load: an empty IndexFlatIP
\* (index: its rows, in slot order) and empty tables.
FAISSInterface ==
    [index |-> <<>>, node_metadata |-> EmptyDict, id_to_index |-> EmptyDict,
     index_to_id |-> EmptyDict, next_index |-> 0]

\* ndarray.tolist(): a Python list of the components
tolist(embedding) == [list |-> embedding]

\* np.array(list)
np_array(l) == l.list

\* v.embedding.tolist() if v.embedding is not None else None
EmbeddingToJson(embedding) ==
    IF embedding = NoVector THEN Nil ELSE tolist(embedding)

\* _save_index: the index file holds the rows, the metadata file the three
\* tables (integer keys written as strings) and next_index.
FAISS_save_index(F, files) ==
    [files EXCEPT
        !.index_file = [rows |-> F.index],
        !.metadata_file =
            [node_metadata |->
                [k \in {IntToStr(i) : i \in DOMAIN F.node_metadata} |->
                    LET v == F.node_metadata[StrToInt(k)]
                    IN  [id |-> v.id, file_path |-> v.file_path,
                         node_type |-> v.node_type, name |-> v.name, code |-> v.code,
                         start_line |-> v.start_line, end_line |-> v.end_line,
                         embedding |-> EmbeddingToJson(v.embedding)]],
             id_to_index |-> F.id_to_index,
             index_to_id |->
                [k \in {IntToStr(i) : i \in DOMAIN F.index_to_id} |->
                    F.index_to_id[StrToInt(k)]],
             next_index |-> F.next_index]]

\* np.array(v['embedding']) if v['embedding'] else None: null and the empty
\* list both give None.
EmbeddingFromJson(e) ==
    IF e = Nil THEN NoVector
    ELSE IF e.list = <<>> THEN NoVector ELSE np_array(e)

\* _load_index on a fresh instance F: the rows of the index file if it
\* exists; the three tables (string keys read back with int) and next_index
\* of the metadata file if it exists.
FAISS_load_index(F, files) ==
    LET F1 == IF files.index_file # Nil
              THEN [F EXCEPT !.index = files.index_file.rows]
              ELSE F
    IN  IF files.metadata_file # Nil
        THEN LET metadata == files.metadata_file
             IN  [F1 EXCEPT
                    !.node_metadata =
                        [index \in {StrToInt(k) : k \in DOMAIN metadata.node_metadata} |->
                            LET v == metadata.node_metadata[IntToStr(index)]
                            IN  [id |-> v.id, file_path |-> v.file_path,
                                 node_type |-> v.node_type, name |-> v.name,
                                 code |-> v.code, start_line |-> v.start_line,
                                 end_line |-> v.end_line,
                                 embedding |-> EmbeddingFromJson(v.embedding)]],
                    !.id_to_index = metadata.id_to_index,
                    !.index_to_id =
                        [index \in {StrToInt(k) : k \in DOMAIN metadata.index_to_id} |->
                            metadata.index_to_id[IntToStr(index)]],
                    !.next_index = metadata.next_index]
        ELSE F1

\* FAISSInterface.__init__ in a directory holding `files`: empty tables,
\* then _load_index.
FAISS_init(files) == FAISS_load_index(FAISSInterface, files)

\* The metadata loop of add_embeddings: one slot per valid node, in order.
RECURSIVE FAISS_register(_, _)
FAISS_register(F, valid_nodes) ==
    IF valid_nodes = <<>> THEN F
    ELSE LET node  == Head(valid_nodes)
             index == F.next_index
         IN  FAISS_register(
                 [F EXCEPT !.node_metadata = DictPut(@, index, node),
                           !.id_to_index   = DictPut(@, node.id, index),
                           !.index_to_id   = DictPut(@, index, node.id),
                           !.next_index    = @ + 1],
                 Tail(valid_nodes))

\* FAISS_add_embeddings without the `node.embedding is not None` filter.
FAISS_add_embeddings_unfiltered(F, files, nodes) ==
    IF nodes # <<>>
    THEN LET F1 == [F EXCEPT !.index = @ \o [i \in DOMAIN nodes |-> nodes[i].embedding]]
             F2 == FAISS_register(F1, nodes)
         IN  [out |-> Returned(None), faiss |-> F2, disk |-> FAISS_save_index(F2, files)]
    ELSE [out |-> Returned(None), faiss |-> F, disk |-> files]

\* FAISSInterface.add_embeddings
FAISS_add_embeddings(F, files, nodes) ==
    LET valid_nodes == SelectSeq(nodes, LAMBDA node : node.embedding # NoVector)
        embeddings  == [i \in DOMAIN valid_nodes |-> valid_nodes[i].embedding]
    IN  IF embeddings # <<>>
        THEN LET F1 == [F EXCEPT !.index = @ \o embeddings]
                 F2 == FAISS_register(F1, valid_nodes)
             IN  [out |-> Returned(None), faiss |-> F2, disk |-> FAISS_save_index(F2, files)]
        ELSE [out |-> Returned(None), faiss |-> F, disk |-> files]

\* FAISSInterface.get_node
FAISS_get_node(F, node_id) ==
    IF node_id \in DOMAIN F.id_to_index
    THEN LET index == F.id_to_index[node_id]
         IN  IF index \in DOMAIN F.node_metadata THEN F.node_metadata[index] ELSE Nil
    ELSE Nil

\* FAISSInterface.update_node
FAISS_update_node(F, files, node) ==
    IF node.id \in DOMAIN F.id_to_index
    THEN LET F1 == [F EXCEPT !.node_metadata = DictPut(@, F.id_to_index[node.id], node)]
         IN  [out |-> Returned(None), faiss |-> F1, disk |-> FAISS_save_index(F1, files)]
    ELSE [out |-> Returned(None), faiss |-> F, disk |-> files]

\* FAISS_delete_node that assumes the id is stored: `del` on a missing key
\* raises KeyError.
FAISS_delete_node_unguarded(F, files, node_id) ==
    IF node_id \in DOMAIN F.id_to_index
    THEN LET index == F.id_to_index[node_id]
         IN  [out |-> Returned(None),
              faiss |-> [F EXCEPT !.node_metadata = DictDel(@, index),
                                  !.id_to_index   = DictDel(@, node_id),
                                  !.index_to_id   = DictDel(@, index)],
              disk |-> files]
    ELSE [out |-> Raised("KeyError"), faiss |-> F, disk |-> files]

\* FAISS_delete_node that hands the freed slot number out again.
FAISS_delete_node_reclaims_slot(F, files, node_id) ==
    IF node_id \in DOMAIN F.id_to_index
    THEN LET index == F.id_to_index[node_id]
         IN  [out |-> Returned(None),
              faiss |-> [F EXCEPT !.node_metadata = DictDel(@, index),
                                  !.id_to_index   = DictDel(@, node_id),
                                  !.index_to_id   = DictDel(@, index),
                                  !.next_index    = @ - 1],
              disk |-> files]
    ELSE [out |-> Returned(None), faiss |-> F, disk |-> files]

\* FAISSInterface.delete_node: the tables lose the entry, the index keeps
\* the row, nothing is written to the files.
FAISS_delete_node(F, files, node_id) ==
    IF node_id \in DOMAIN F.id_to_index
    THEN LET index == F.id_to_index[node_id]
         IN  [out |-> Returned(None),
              faiss |-> [F EXCEPT !.node_metadata = DictDel(@, index),
                                  !.id_to_index   = DictDel(@, node_id),
                                  !.index_to_id   = DictDel(@, index)],
              disk |-> files]
    ELSE [out |-> Returned(None), faiss |-> F, disk |-> files]

\* FAISSInterface.get_all_nodes: the values of node_metadata, in key
\* insertion order (slots are handed out in increasing order).
RECURSIVE FAISS_values(_, _)
FAISS_values(F, index) ==
    IF index >= F.next_index THEN <<>>
    ELSE (IF index \in DOMAIN F.node_metadata THEN <<F.node_metadata[index]>> ELSE <<>>)
         \o FAISS_values(F, index + 1)

FAISS_get_all_nodes(F) == FAISS_values(F, 0)

\* FAISSInterface.search: IndexFlatIP ranks every row by inner product
\* (rows of equal score in slot order); rows whose slot is no key of
\* index_to_id are dropped from the answer.
FAISS_search(F, query_embedding, top_k) ==
    LET scored == [i \in DOMAIN F.index |-> <<i - 1, Dot(query_embedding, F.index[i])>>]
        best   == Prefix(SortDescending(scored), top_k)
        kept   == SelectSeq(best, LAMBDA r : r[1] \in DOMAIN F.index_to_id)
    IN  [i \in DOMAIN kept |-> <<F.index_to_id[kept[i][1]], kept[i][2]>>]

----------------------------------------------------------------------------
(* ChromaDBInterface (src/src/vector_database.py)                          *)

\* The collection of a fresh persist directory: its records, in the order
\* they were added.
ChromaDBInterface == [collection |-> <<>>]

ChromaHas(C, id) == \E i \in DOMAIN C.collection : C.collection[i].id = id

\* collection.add: ids repeated inside one call are rejected
\* (DuplicateIDError); a record whose id the collection already holds is
\* left as it is.
RECURSIVE ChromaCollectionAdd(_, _)
ChromaCollectionAdd(C, records) ==
    IF records = <<>> THEN C
    ELSE ChromaCollectionAdd(
             IF ChromaHas(C, Head(records).id) THEN C
             ELSE [C EXCEPT !.collection = Append(@, Head(records))],
             Tail(records))

\* ChromaDBInterface.add_embeddings
Chroma_add_embeddings(C, nodes) ==
    LET valid == SelectSeq(nodes, LAMBDA node : node.embedding # NoVector)
        records ==
            [i \in DOMAIN valid |->
                [id |-> valid[i].id,
                 embedding |-> tolist(valid[i].embedding),
                 metadata |-> [file_path |-> valid[i].file_path,
                               node_type |-> valid[i].node_type,
                               name |-> valid[i].name,
                               start_line |-> valid[i].start_line,
                               end_line |-> valid[i].end_line],
                 document |-> valid[i].code]]
    IN  IF records = <<>> THEN [out |-> Returned(None), chroma |-> C]
        ELSE IF ~NoDuplicates([i \in DOMAIN records |-> records[i].id])
             THEN [out |-> Raised("DuplicateIDError"), chroma |-> C]
             ELSE [out |-> Returned(None), chroma |-> ChromaCollectionAdd(C, records)]

\* ChromaDBInterface.get_node: collection.get answers with metadatas and
\* documents only, so results['embeddings'] is None.
Chroma_get_node(C, node_id) ==
    IF ChromaHas(C, node_id)
    THEN LET r == C.collection[CHOOSE i \in DOMAIN C.collection :
                                   C.collection[i].id = node_id]
         IN  [id |-> node_id, file_path |-> r.metadata.file_path,
              node_type |-> r.metadata.node_type, name |-> r.metadata.name,
              code |-> r.document, start_line |-> r.metadata.start_line,
              end_line |-> r.metadata.end_line, embedding |-> NoVector]
    ELSE Nil

\* ChromaDBInterface.search: the collection ranks by cosine distance
\* (hnsw:space = cosine); similarity = 1.0 - distance.
Chroma_search(C, query_embedding, top_k) ==
    LET scored == [i \in DOMAIN C.collection |->
                      <<C.collection[i].id,
                        CosineSimilarity(query_embedding,
                                         np_array(C.collection[i].embedding))>>]
    IN  Prefix(SortDescending(scored), top_k)

\* ChromaDBInterface.delete_node
Chroma_delete_node(C, node_id) ==
    [C EXCEPT !.collection = SelectSeq(@, LAMBDA r : r.id # node_id)]

----------------------------------------------------------------------------
(* The active backend of a JavaCodeEmbeddingSystem (src/src/main.py)       *)

\* VectorDatabaseFactory.create_database: the backend the system holds; the
\* other class is never instantiated (None).
create_database(db_type) ==
    IF db_type = "chromadb"
    THEN [faiss |-> Nil, chroma |-> ChromaDBInterface]
    ELSE [faiss |-> FAISSInterface, chroma |-> Nil]

\* self.vector_db.add_embeddings(nodes)
vector_db_add_embeddings(F, C, files, nodes) ==
    IF F # Nil
    THEN LET r == FAISS_add_embeddings(F, files, nodes)
         IN  [out |-> r.out, faiss |-> r.faiss, chroma |-> C, disk |-> r.disk]
    ELSE LET r == Chroma_add_embeddings(C, nodes)
         IN  [out |-> r.out, faiss |-> F, chroma |-> r.chroma, disk |-> files]

\* self.vector_db.search(query_embedding, top_k)
vector_db_search(F, C, query_embedding, top_k) ==
    IF F # Nil THEN FAISS_search(F, query_embedding, top_k)
    ELSE Chroma_search(C, query_embedding, top_k)

\* self.vector_db.get_node(node_id)
vector_db_get_node(F, C, node_id) ==
    IF F # Nil THEN FAISS_get_node(F, node_id) ELSE Chroma_get_node(C, node_id)

----------------------------------------------------------------------------
(* Snapshots: export_embeddings / load_embeddings                          *)
(* (src/src/graphcodebert_embedder.py)                                     *)

\* The three fields of the embedder as one value.
Store(nodes, relations, G) ==
    [code_nodes |-> nodes, code_relations |-> relations, call_graph |-> G]

EmptyStore == Store(<<>>, <<>>, EmptyGraph)

\* dataclasses.asdict on a CodeNode: every field, the embedding as the
\* ndarray (or None) it is.
asdict_node(node) ==
    [id |-> node.id, file_path |-> node.file_path, node_type |-> node.node_type,
     name |-> node.name, code |-> node.code, start_line |-> node.start_line,
     end_line |-> node.end_line, embedding |-> node.embedding]

\* dataclasses.asdict on a CodeRelation
asdict_relation(rel) ==
    [source_id |-> rel.source_id, target_id |-> rel.target_id,
     relation_type |-> rel.relation_type, confidence |-> rel.confidence]

\* A file whose JSON text stops before the document is complete.
Partial == [truncated |-> TRUE]

\* The dict export_embeddings builds: 'nodes' as (key, record) pairs in dict
\* order, 'relations' as a list.
ExportData(S) ==
    [nodes |->
        [i \in DOMAIN S.code_nodes |->
            <<S.code_nodes[i].id,
              [metadata  |-> asdict_node(S.code_nodes[i]),
               embedding |-> EmbeddingToJson(S.code_nodes[i].embedding)]>>],
     relations |-> [i \in DOMAIN S.code_relations |-> asdict_relation(S.code_relations[i])]]

\* What json.dump accepts: 'metadata' holds the ndarray itself, which the
\* encoder rejects.
JsonSerializable(data) ==
    \A i \in DOMAIN data.nodes : data.nodes[i][2].metadata.embedding = NoVector

\* The document json.dump writes for serializable data: None becomes null.
JsonDump(data) ==
    [data EXCEPT !.nodes =
        [i \in DOMAIN data.nodes |->
            <<data.nodes[i][1],
              [data.nodes[i][2] EXCEPT !.metadata.embedding = Nil]>>]]

\* export_embeddings: the file is opened for writing (truncated) before
\* json.dump runs; json.dump writes chunk by chunk and raises TypeError at
\* the first ndarray.
export_embeddings(S, files) ==
    LET data == ExportData(S)
    IN  IF JsonSerializable(data)
        THEN [out |-> Returned(None), disk |-> [files EXCEPT !.snapshot = JsonDump(data)]]
        ELSE [out |-> Raised("TypeError"), disk |-> [files EXCEPT !.snapshot = Partial]]

CodeNodeRequired ==
    {"id", "file_path", "node_type", "name", "code", "start_line", "end_line"}

CodeNodeFields == CodeNodeRequired \cup {"embedding"}

CodeRelationFields == {"source_id", "target_id", "relation_type", "confidence"}

\* Lines 352-361: the node loop.  The store is updated record by record; an
\* exception stops the loop and keeps what was stored so far.  (Every
\* document here keys a record by the id its metadata holds.)
RECURSIVE LoadNodes(_, _)
LoadNodes(S, entries) ==
    IF entries = <<>> THEN [out |-> Returned(None), store |-> S]
    ELSE LET node_id   == Head(entries)[1]
             node_data == Head(entries)[2]
         IN  IF "metadata" \notin DOMAIN node_data \/ "embedding" \notin DOMAIN node_data
             THEN [out |-> Raised("KeyError"), store |-> S]
             ELSE LET metadata == node_data.metadata
                  IN  IF ~(CodeNodeRequired \subseteq DOMAIN metadata
                           /\ DOMAIN metadata \subseteq CodeNodeFields)
                      THEN [out |-> Raised("TypeError"), store |-> S]
                      ELSE LET embedding ==
                                   IF node_data.embedding \notin {Nil, tolist(<<>>)}
                                   THEN np_array(node_data.embedding) ELSE NoVector
                               node ==
                                   [id |-> metadata.id, file_path |-> metadata.file_path,
                                    node_type |-> metadata.node_type,
                                    name |-> metadata.name, code |-> metadata.code,
                                    start_line |-> metadata.start_line,
                                    end_line |-> metadata.end_line,
                                    embedding |-> embedding]
                           IN  LoadNodes(
                                   [S EXCEPT !.code_nodes = PutNode(@, node),
                                             !.call_graph = GraphAddNode(@, node_id)],
                                   Tail(entries))

\* Lines 364-374: the relation loop.
RECURSIVE LoadRelations(_, _)
LoadRelations(S, relations) ==
    IF relations = <<>> THEN [out |-> Returned(None), store |-> S]
    ELSE LET rel_data == Head(relations)
         IN  IF DOMAIN rel_data # CodeRelationFields
             THEN [out |-> Raised("TypeError"), store |-> S]
             ELSE LoadRelations(
                      [S EXCEPT !.code_relations =
                                    Append(@, CodeRelation(rel_data.source_id,
                                                           rel_data.target_id,
                                                           rel_data.relation_type,
                                                           rel_data.confidence)),
                                !.call_graph =
                                    GraphAddEdge(@, rel_data.source_id, rel_data.target_id,
                                                 rel_data.relation_type,
                                                 rel_data.confidence)],
                      Tail(relations))

\* load_embeddings.  file: what input_path holds (None: no such file).
load_embeddings(S, file) ==
    IF file = Nil THEN [out |-> Raised("FileNotFoundError"), store |-> S]
    ELSE IF file = Partial THEN [out |-> Raised("JSONDecodeError"), store |-> S]
    ELSE IF "nodes" \notin DOMAIN file THEN [out |-> Raised("KeyError"), store |-> S]
    ELSE LET n == LoadNodes(S, file.nodes)
         IN  IF n.out.raised # None THEN n
             ELSE IF "relations" \notin DOMAIN file
                  THEN [out |-> Raised("KeyError"), store |-> n.store]
                  ELSE LoadRelations(n.store, file.relations)

\* Lines 70-71 of main.py: add_code_node for every parsed node.
RECURSIVE AddNodes(_, _)
AddNodes(S, nodes) ==
    IF nodes = <<>> THEN S
    ELSE AddNodes(
             [S EXCEPT !.code_nodes =
                           PutNode(@, [Head(nodes) EXCEPT
                                          !.embedding = encode_code(Head(nodes).code)]),
                       !.call_graph = GraphAddNode(@, Head(nodes).id)],
             Tail(nodes))

\* Lines 74-77 of main.py: add_code_relation for every parsed relation.
RECURSIVE AddRelations(_, _)
AddRelations(S, relations) ==
    IF relations = <<>> THEN S
    ELSE AddRelations(
             [S EXCEPT !.code_relations = Append(@, Head(relations)),
                       !.call_graph =
                           GraphAddEdge(@, Head(relations).source_id,
                                        Head(relations).target_id,
                                        Head(relations).relation_type,
                                        Head(relations).confidence)],
             Tail(relations))

\* process_java_repository.  repo: what the parser made of the directory;
\* output_file: whether a path was given.  add_code_node sets the embedding
\* on the parser's own node objects, so line 81 hands the backend nodes that
\* carry their vectors.
process_java_repository(S, F, C, files, repo, output_file) ==
    LET S1    == AddNodes(S, repo.code_nodes)
        S2    == AddRelations(S1, repo.code_relations)
        nodes == [i \in DOMAIN repo.code_nodes |->
                     [repo.code_nodes[i] EXCEPT
                         !.embedding = encode_code(repo.code_nodes[i].code)]]
        db    == vector_db_add_embeddings(F, C, files, nodes)
        ex    == export_embeddings(S2, db.disk)
    IN  IF db.out.raised # None
        THEN [out |-> db.out, store |-> S2, faiss |-> db.faiss, chroma |-> db.chroma,
              disk |-> db.disk]
        ELSE IF output_file
             THEN [out |-> ex.out, store |-> S2, faiss |-> db.faiss,
                   chroma |-> db.chroma, disk |-> ex.disk]
             ELSE [out |-> Returned(None), store |-> S2, faiss |-> db.faiss,
                   chroma |-> db.chroma, disk |-> db.disk]

----------------------------------------------------------------------------
(* State machine                                                           *)

Idle == [fn |-> "idle"]

\* GraphCodeBERTEmbedder() on its own: no vector database is created.
Init ==
    /\ code_nodes = <<>>
    /\ code_relations = <<>>
    /\ call_graph = EmptyGraph
    /\ ret = [op |-> "init"]
    /\ pc = Idle
    /\ frame = None
    /\ encode_calls = 0
    /\ faiss = Nil
    /\ chroma = Nil
    /\ disk = NoFiles

add_code_relation(relation) ==
    /\ pc = Idle
    /\ code_relations' = Append(code_relations, relation)
    /\ call_graph' = GraphAddEdge(call_graph, relation.source_id, relation.target_id,
                                  relation.relation_type, relation.confidence)
    /\ ret' = [op |-> "add_code_relation"]
    /\ UNCHANGED <<code_nodes, pc, frame, encode_calls, backend_vars>>

AddCodeRelation ==
    /\ Len(code_relations) < MaxRelations
    /\ \E relation \in RelationInputs : add_code_relation(relation)

Upstream ==
    /\ pc = Idle
    /\ \E node_id \in Ids, max_depth \in 0..MaxDepth :
          ret' = [op |-> "upstream", node_id |-> node_id, max_depth |-> max_depth,
                  out |-> get_upstream_dependencies(call_graph, node_id, max_depth)]
    /\ UNCHANGED <<code_nodes, code_relations, call_graph, pc, frame, encode_calls, backend_vars>>

Downstream ==
    /\ pc = Idle
    /\ \E node_id \in Ids, max_depth \in 0..MaxDepth :
          ret' = [op |-> "downstream", node_id |-> node_id, max_depth |-> max_depth,
                  out |-> get_downstream_dependencies(call_graph, node_id, max_depth)]
    /\ UNCHANGED <<code_nodes, code_relations, call_graph, pc, frame, encode_calls, backend_vars>>

CallPath ==
    /\ pc = Idle
    /\ \E source_id \in Ids, target_id \in Ids :
          ret' = [op |-> "call_path", source_id |-> source_id, target_id |-> target_id,
                  out |-> get_call_path(call_graph, source_id, target_id)]
    /\ UNCHANGED <<code_nodes, code_relations, call_graph, pc, frame, encode_calls, backend_vars>>

AnalyzeImpact ==
    /\ pc = Idle
    /\ \E node_id \in Ids :
          ret' = [op |-> "analyze_impact", node_id |-> node_id,
                  out |-> analyze_impact(call_graph, node_id)]
    /\ UNCHANGED <<code_nodes, code_relations, call_graph, pc, frame, encode_calls, backend_vars>>

Next ==
    \/ AddCodeRelation
    \/ Upstream
    \/ Downstream
    \/ CallPath
    \/ AnalyzeImpact

Spec == Init /\ [][Next]_vars

\* The store with analyze_impact as its only query.
NextImpact ==
    \/ AddCodeRelation
    \/ AnalyzeImpact

SpecImpact == Init /\ [][NextImpact]_vars

add_code_node(node) ==
    /\ pc = Idle
    /\ code_nodes' = PutNode(code_nodes, [node EXCEPT !.embedding = encode_code(node.code)])
    /\ call_graph' = GraphAddNode(call_graph, node.id)
    /\ encode_calls' = 1
    /\ ret' = [op |-> "add_code_node", node |-> node]
    /\ UNCHANGED <<code_relations, pc, frame, backend_vars>>

AddCodeNode ==
    \E node \in NodeInputs :
        /\ NodeIndex(code_nodes, node.id) # 0 \/ Len(code_nodes) < MaxNodes
        /\ add_code_node(node)

\* JavaCodeEmbeddingSystem.__init__: the embedder and one backend.
InitSystem ==
    /\ code_nodes = <<>>
    /\ code_relations = <<>>
    /\ call_graph = EmptyGraph
    /\ ret = [op |-> "init"]
    /\ pc = Idle
    /\ frame = None
    /\ encode_calls = 0
    /\ \E vector_db_type \in {"chromadb", "faiss"} :
          /\ faiss = create_database(vector_db_type).faiss
          /\ chroma = create_database(vector_db_type).chroma
    /\ disk = NoFiles

\* self.vector_db.search raises (backend_fails) or answers from what the
\* backend holds.
SearchSimilarCode ==
    /\ pc = Idle
    /\ \E query_code \in Codes, top_k \in 1..MaxTopK, backend_fails \in BOOLEAN :
          LET db_out == IF backend_fails THEN Raised("BackendError")
                        ELSE Returned(vector_db_search(faiss, chroma,
                                                       encode_code(query_code), top_k))
              r == search_similar_code(code_nodes, query_code, top_k, db_out)
          IN  /\ ret' = [op |-> "search", query_code |-> query_code, top_k |-> top_k,
                         backend_fails |-> backend_fails, db_out |-> db_out,
                         out |-> r.out]
              /\ encode_calls' = r.encode_calls
    /\ UNCHANGED <<code_nodes, code_relations, call_graph, pc, frame, backend_vars>>

NextSearch ==
    \/ AddCodeNode
    \/ SearchSimilarCode

SpecSearch == InitSystem /\ [][NextSearch]_vars

----------------------------------------------------------------------------
(* The traversal handlers run one loop iteration at a time                 *)

\* list(s) for a Python set s: its elements, each once, in some order.
ListsOf(S) ==
    {p \in [1..Cardinality(S) -> S] : \A i, j \in DOMAIN p : p[i] = p[j] => i = j}

\* Lines 226-231 / 262-267: the guard and the initial locals.
BeginTraversal(fn) ==
    /\ pc = Idle
    /\ \E node_id \in Ids, max_depth \in 0..MaxDepth :
          IF ~HasNode(call_graph, node_id)
          THEN /\ ret' = [op |-> fn, node_id |-> node_id, max_depth |-> max_depth,
                          out |-> Returned(<<>>), expanded |-> <<>>]
               /\ UNCHANGED <<pc, frame>>
          ELSE /\ pc' = [fn |-> fn, node_id |-> node_id, max_depth |-> max_depth]
               /\ frame' = InitialFrame(node_id)
               /\ ret' = [op |-> "running"]
    /\ UNCHANGED <<code_nodes, code_relations, call_graph, encode_calls, backend_vars>>

BeginUpstream == BeginTraversal("upstream")

BeginDownstream == BeginTraversal("downstream")

\* Lines 233-247 / 269-283: one iteration of `while queue`.
TraversalIteration ==
    /\ pc.fn \in {"upstream", "downstream"}
    /\ frame.queue # <<>>
    /\ frame' = IF pc.fn = "upstream"
                THEN UpstreamIteration(call_graph, pc.max_depth, frame)
                ELSE DownstreamIteration(call_graph, pc.max_depth, frame)
    /\ UNCHANGED <<code_nodes, code_relations, call_graph, ret, pc, encode_calls, backend_vars>>

\* Lines 249 / 285: return list(upstream) / list(downstream).
TraversalReturn ==
    /\ pc.fn \in {"upstream", "downstream"}
    /\ frame.queue = <<>>
    /\ \E result \in ListsOf(frame.found) :
          ret' = [op |-> pc.fn, node_id |-> pc.node_id, max_depth |-> pc.max_depth,
                  out |-> Returned(result), expanded |-> frame.expanded]
    /\ pc' = Idle
    /\ frame' = None
    /\ UNCHANGED <<code_nodes, code_relations, call_graph, encode_calls, backend_vars>>

NextLoop ==
    \/ AddCodeRelation
    \/ BeginUpstream
    \/ BeginDownstream
    \/ TraversalIteration
    \/ TraversalReturn

\* The interpreter runs a handler it has entered to its return.
SpecLoop ==
    Init /\ [][NextLoop]_vars /\ WF_vars(TraversalIteration) /\ WF_vars(TraversalReturn)

----------------------------------------------------------------------------
(* The system: repositories processed, snapshots written and read          *)

\* What the parser makes of a directory: no class at all; two methods and
\* a call between them; one of the methods again, its text changed.
RepoInputs ==
    { [code_nodes |-> <<>>, code_relations |-> <<>>],
      [code_nodes |-> <<CodeNode("A", "F.java", "method", "A", "c1", 1, 9),
                        CodeNode("B", "F.java", "method", "B", "c2", 1, 9)>>,
       code_relations |-> <<CodeRelation("A", "B", "call", 80)>>],
      [code_nodes |-> <<CodeNode("A", "F.java", "method", "A", "c2", 1, 9)>>,
       code_relations |-> <<>>] }

\* A node record of a snapshot document
NodeRecord(id, code, embedding) ==
    <<id, [metadata  |-> [asdict_node(CodeNode(id, "F.java", "method", id, code, 1, 9))
                             EXCEPT !.embedding = Nil],
           embedding |-> embedding]>>

\* Snapshot documents a caller can hand to load_embeddings: a well-formed
\* one (a node with a vector, a node without, a relation), and one for each
\* way a document can be malformed: no 'nodes', no 'relations', a node
\* record without 'embedding', one without 'metadata', a relation without
\* 'confidence'.
DocInputs ==
    { [nodes |-> <<NodeRecord("A", "c1", tolist(<<1, 0>>)), NodeRecord("B", "c2", Nil)>>,
       relations |-> <<asdict_relation(CodeRelation("A", "B", "call", 80))>>],
      [relations |-> <<>>],
      [nodes |-> <<NodeRecord("B", "c2", Nil)>>],
      [nodes |-> <<NodeRecord("B", "c2", Nil), <<"A", [embedding |-> Nil]>>>>,
       relations |-> <<>>],
      [nodes |-> <<NodeRecord("B", "c2", Nil),
                   <<"A", [metadata |-> NodeRecord("A", "c1", Nil)[2].metadata]>>>>,
       relations |-> <<>>],
      [nodes |-> <<>>,
       relations |-> <<asdict_relation(CodeRelation("A", "B", "call", 80)),
                       [source_id |-> "B", target_id |-> "A",
                        relation_type |-> "call"]>>] }

CurrentStore == Store(code_nodes, code_relations, call_graph)

ProcessRepository ==
    /\ pc = Idle
    /\ \E repo \in RepoInputs, output_file \in BOOLEAN :
          LET r == process_java_repository(CurrentStore, faiss, chroma, disk,
                                           repo, output_file)
          IN  /\ Len(r.store.code_relations) <= MaxStored
              /\ Len(r.store.code_nodes) <= MaxNodes
              /\ faiss # Nil => r.faiss.next_index <= MaxSlots
              /\ code_nodes' = r.store.code_nodes
              /\ code_relations' = r.store.code_relations
              /\ call_graph' = r.store.call_graph
              /\ faiss' = r.faiss
              /\ chroma' = r.chroma
              /\ disk' = r.disk
              /\ encode_calls' = Len(repo.code_nodes)
              /\ ret' = [op |-> "process_java_repository", repo |-> repo,
                         output_file |-> output_file, out |-> r.out]
    /\ UNCHANGED <<pc, frame>>

ExportEmbeddings ==
    /\ pc = Idle
    /\ LET r == export_embeddings(CurrentStore, disk)
       IN  /\ disk' = r.disk
           /\ ret' = [op |-> "export_embeddings", out |-> r.out]
    /\ encode_calls' = 0
    /\ UNCHANGED <<code_nodes, code_relations, call_graph, pc, frame, faiss, chroma>>

\* load_embeddings on a document of DocInputs or on the file the last
\* export wrote.
LoadEmbeddings ==
    /\ pc = Idle
    /\ \E file \in DocInputs \cup {disk.snapshot} :
          LET r == load_embeddings(CurrentStore, file)
          IN  /\ Len(r.store.code_relations) <= MaxStored
              /\ Len(r.store.code_nodes) <= MaxNodes
              /\ code_nodes' = r.store.code_nodes
              /\ code_relations' = r.store.code_relations
              /\ call_graph' = r.store.call_graph
              /\ ret' = [op |-> "load_embeddings", file |-> file,
                         before |-> CurrentStore, out |-> r.out]
    /\ encode_calls' = 0
    /\ UNCHANGED <<pc, frame, backend_vars>>

NextSystem ==
    \/ ProcessRepository
    \/ ExportEmbeddings
    \/ LoadEmbeddings
    \/ SearchSimilarCode

SpecSystem == InitSystem /\ [][NextSystem]_vars

----------------------------------------------------------------------------
(* Reference notions the properties are stated with: hop distance defined  *)
(* from the edge relation alone, with no queue and no visited set          *)

EdgeSet(G) == {<<G.adj[i].source, G.adj[i].target>> : i \in DOMAIN G.adj}

Vertices(G) == Range(G.node)

\* The neighbours of the vertices of S along (forward) or against the edges.
Image(G, S, forward) ==
    IF forward THEN {e[2] : e \in {x \in EdgeSet(G) : x[1] \in S}}
    ELSE {e[1] : e \in {x \in EdgeSet(G) : x[2] \in S}}

\* The vertices some walk of at least 1 and at most k hops from start ends in.
RECURSIVE WithinHops(_, _, _, _)
WithinHops(G, start, k, forward) ==
    IF k <= 0 THEN {}
    ELSE Image(G, {start} \cup WithinHops(G, start, k - 1, forward), forward)

Unreachable == 0 - 1

\* The true shortest hop distance from start to v (0 for start itself).
Distance(G, start, v, forward) ==
    IF v = start THEN 0
    ELSE LET n  == Len(G.node)
             ks == {k \in 1..n : v \in WithinHops(G, start, k, forward)}
         IN  IF ks = {} THEN Unreachable
             ELSE CHOOSE k \in ks : \A j \in ks : k <= j

\* The length of a shortest directed cycle through v.
ShortestCycle(G, v) ==
    LET ks == {k \in 1..Len(G.node) : v \in WithinHops(G, v, k, TRUE)}
    IN  IF ks = {} THEN Unreachable ELSE CHOOSE k \in ks : \A j \in ks : k <= j

\* The vertex orders along which G is a simple chain p[1] -> ... -> p[n]
\* with no other edge.
ChainOrders(G) ==
    LET n == Len(G.node)
    IN  IF n < 2 \/ Len(G.adj) # n - 1 THEN {}
        ELSE {p \in [1..n -> Vertices(G)] :
                /\ \A i, j \in 1..n : p[i] = p[j] => i = j
                /\ EdgeSet(G) = {<<p[i], p[i + 1]>> : i \in 1..(n - 1)}}

Min(a, b) == IF a <= b THEN a ELSE b

IsTraversal == ret.op \in {"upstream", "downstream"}

TraversalStarted == IsTraversal /\ HasNode(call_graph, ret.node_id)

----------------------------------------------------------------------------
(* The graph store on its own: nodes, relations, statistics, traversals    *)

\* The vertices an undirected walk of at most k hops from S ends in.
RECURSIVE UndirectedWithin(_, _, _)
UndirectedWithin(G, S, k) ==
    IF k <= 0 THEN S
    ELSE UndirectedWithin(G, S \cup Image(G, S, TRUE) \cup Image(G, S, FALSE), k - 1)

\* nx.number_strongly_connected_components
number_strongly_connected_components(G) ==
    LET n == Len(G.node)
        From(v) == {v} \cup WithinHops(G, v, n, TRUE)
    IN  Cardinality({{w \in Vertices(G) : w \in From(v) /\ v \in From(w)} : v \in Vertices(G)})

\* nx.number_weakly_connected_components
number_weakly_connected_components(G) ==
    Cardinality({UndirectedWithin(G, {v}, Len(G.node)) : v \in Vertices(G)})

\* get_statistics
get_statistics(S) ==
    [total_nodes     |-> Len(S.code_nodes),
     total_relations |-> Len(S.code_relations),
     total_edges     |-> NumberOfEdges(S.call_graph),
     strongly_connected_components |-> number_strongly_connected_components(S.call_graph),
     weakly_connected_components   |-> number_weakly_connected_components(S.call_graph)]

\* Nodes for A and B, each with two texts; C never gets a CodeNode.
StoreNodeInputs ==
    {CodeNode(id, "F.java", "method", id, code, 1, 9) :
        id \in {"A", "B"}, code \in {"c1", "c2"}}

\* Two relations between the same pair that differ in kind, and one to an
\* id that has no CodeNode.
StoreRelationInputs ==
    { CodeRelation("A", "B", "call", 80),
      CodeRelation("A", "B", "reference", 90),
      CodeRelation("B", "C", "call", 80) }

AddStoreNode ==
    \E node \in StoreNodeInputs :
        /\ NodeIndex(code_nodes, node.id) # 0 \/ Len(code_nodes) < MaxNodes
        /\ add_code_node(node)

AddStoreRelation ==
    /\ Len(code_relations) < MaxStored
    /\ \E relation \in StoreRelationInputs : add_code_relation(relation)

GetStatistics ==
    /\ pc = Idle
    /\ ret' = [op |-> "get_statistics", out |-> Returned(get_statistics(CurrentStore))]
    /\ UNCHANGED <<code_nodes, code_relations, call_graph, pc, frame, encode_calls,
                   backend_vars>>

NextStore ==
    \/ AddStoreNode
    \/ AddStoreRelation
    \/ GetStatistics
    \/ Upstream
    \/ Downstream

SpecStore == Init /\ [][NextStore]_vars

----------------------------------------------------------------------------
(* The vector backends on their own                                        *)

\* Nodes handed to a backend: A with either of two vectors or none, B with
\* a vector.
BackendNodes ==
    { [CodeNode("A", "F.java", "method", "A", "c1", 1, 9) EXCEPT !.embedding = NoVector],
      [CodeNode("A", "F.java", "method", "A", "c1", 1, 9) EXCEPT !.embedding = <<1, 0>>],
      [CodeNode("A", "F.java", "method", "A", "c2", 1, 9) EXCEPT !.embedding = <<3, 4>>],
      [CodeNode("B", "F.java", "method", "B", "c1", 1, 9) EXCEPT !.embedding = <<1, 0>>] }

\* The lists of at most MaxBatch such nodes
Batches == UNION {[1..n -> BackendNodes] : n \in 0..MaxBatch}

FaissAddEmbeddings ==
    /\ pc = Idle
    /\ faiss # Nil
    /\ \E nodes \in Batches :
          LET r == FAISS_add_embeddings(faiss, disk, nodes)
          IN  /\ r.faiss.next_index <= MaxSlots
              /\ faiss' = r.faiss
              /\ disk' = r.disk
              /\ ret' = [op |-> "add_embeddings", nodes |-> nodes, out |-> r.out]
    /\ UNCHANGED <<code_nodes, code_relations, call_graph, pc, frame, encode_calls, chroma>>

ChromaAddEmbeddings ==
    /\ pc = Idle
    /\ chroma # Nil
    /\ \E nodes \in Batches :
          LET r == Chroma_add_embeddings(chroma, nodes)
          IN  /\ chroma' = r.chroma
              /\ ret' = [op |-> "add_embeddings", nodes |-> nodes, out |-> r.out]
    /\ UNCHANGED <<code_nodes, code_relations, call_graph, pc, frame, encode_calls,
                   faiss, disk>>

\* stored: whether the id was a key of id_to_index when the call was made.
FaissDeleteNode ==
    /\ pc = Idle
    /\ faiss # Nil
    /\ \E node_id \in {"A", "B", "C"} :
          LET r == FAISS_delete_node(faiss, disk, node_id)
          IN  /\ faiss' = r.faiss
              /\ disk' = r.disk
              /\ ret' = [op |-> "delete_node", node_id |-> node_id,
                         stored |-> node_id \in DOMAIN faiss.id_to_index,
                         out |-> r.out]
    /\ UNCHANGED <<code_nodes, code_relations, call_graph, pc, frame, encode_calls, chroma>>

NextBackend ==
    \/ FaissAddEmbeddings
    \/ ChromaAddEmbeddings
    \/ FaissDeleteNode

SpecBackend == InitSystem /\ [][NextBackend]_vars

----------------------------------------------------------------------------
(* One FAISSInterface over its lifetime, restarts included                 *)

\* A process that constructs a FAISSInterface in an empty directory.
InitFaiss ==
    /\ code_nodes = <<>>
    /\ code_relations = <<>>
    /\ call_graph = EmptyGraph
    /\ ret = [op |-> "init"]
    /\ pc = Idle
    /\ frame = None
    /\ encode_calls = 0
    /\ faiss = FAISS_init(NoFiles)
    /\ chroma = Nil
    /\ disk = NoFiles

\* The batches one instance is fed over its lifetime: at most one node, or
\* the same id twice with two different embeddings.
LifetimeBatches ==
    {nodes \in Batches :
        \/ Len(nodes) <= 1
        \/ /\ Len(nodes) = 2
           /\ nodes[1].id = nodes[2].id
           /\ nodes[1].embedding # nodes[2].embedding}

FaissAdd ==
    /\ pc = Idle
    /\ faiss # Nil
    /\ \E nodes \in LifetimeBatches :
          LET r == FAISS_add_embeddings(faiss, disk, nodes)
          IN  /\ r.faiss.next_index <= MaxSlots
              /\ faiss' = r.faiss
              /\ disk' = r.disk
              /\ ret' = [op |-> "add_embeddings", nodes |-> nodes, out |-> r.out]
    /\ UNCHANGED <<code_nodes, code_relations, call_graph, pc, frame, encode_calls, chroma>>

\* stored: whether node.id was a key of id_to_index when the call was made.
FaissUpdateNode ==
    /\ pc = Idle
    /\ faiss # Nil
    /\ \E node \in BackendNodes :
          LET r == FAISS_update_node(faiss, disk, node)
          IN  /\ faiss' = r.faiss
              /\ disk' = r.disk
              /\ ret' = [op |-> "update_node", node |-> node,
                         stored |-> node.id \in DOMAIN faiss.id_to_index,
                         out |-> r.out]
    /\ UNCHANGED <<code_nodes, code_relations, call_graph, pc, frame, encode_calls, chroma>>

\* The process ends and a new one constructs a FAISSInterface over the same
\* files.
FaissRestart ==
    /\ pc = Idle
    /\ faiss # Nil
    /\ faiss' = FAISS_init(disk)
    /\ ret' = [op |-> "__init__"]
    /\ UNCHANGED <<code_nodes, code_relations, call_graph, pc, frame, encode_calls,
                   chroma, disk>>

NextFaiss ==
    \/ FaissAdd
    \/ FaissUpdateNode
    \/ FaissDeleteNode
    \/ FaissRestart

SpecFaiss == InitFaiss /\ [][NextFaiss]_vars

----------------------------------------------------------------------------
(* JavaCodeParser (src/src/java_parser.py)                                 *)

MaxMethods == 2

\* JavaMethod: the fields the conversions read.
JavaMethod(name, class_name, parameters, body) ==
    [name |-> name, class_name |-> class_name, parameters |-> parameters,
     body |-> body, start_line |-> 2, end_line |-> 4]

\* JavaClass: the fields the conversions and the analyses read.
JavaClass(name, package, methods, imports, extends) ==
    [name |-> name, package |-> package, methods |-> methods, imports |-> imports,
     extends |-> extends, implements |-> <<>>, start_line |-> 1, end_line |-> 9]

\* re.findall(r'(\w+)\.(\w+)\s*\(', method_body) for the method bodies of
\* the inputs: the (object, method) pairs, in text order.
FindCalls(method_body) ==
    CASE method_body = "b.n();"           -> << <<"b", "n">> >>
      [] method_body = "this.m(1); B.n();" -> << <<"this", "m">>, <<"B", "n">> >>
      [] OTHER                             -> <<>>

\* imp.split('.')[-1] for the imports of the inputs
LastSegment(imp) ==
    CASE imp = "q.C" -> "C"
      [] OTHER       -> imp

\* JavaCodeParser.__init__; parsed_files is a dict, kept as the list of its
\* (file_path, JavaClass) items in insertion order.
JavaCodeParser == [parsed_files |-> <<>>, method_calls |-> <<>>, type_references |-> <<>>]

\* _find_method_calls_in_body
find_method_calls_in_body(P, method_body, caller_id) ==
    LET matches == FindCalls(method_body)
    IN  [P EXCEPT !.method_calls =
            @ \o [i \in DOMAIN matches |->
                     <<caller_id, matches[i][1] \o "." \o matches[i][2]>>]]

RECURSIVE AnalyzeMethods(_, _, _)
AnalyzeMethods(P, java_class, methods) ==
    IF methods = <<>> THEN P
    ELSE AnalyzeMethods(
             find_method_calls_in_body(P, Head(methods).body,
                                       java_class.name \o "." \o Head(methods).name),
             java_class, Tail(methods))

\* _analyze_method_calls, from the i-th parsed file on
RECURSIVE analyze_method_calls(_, _)
analyze_method_calls(P, i) ==
    IF i > Len(P.parsed_files) THEN P
    ELSE analyze_method_calls(
             AnalyzeMethods(P, P.parsed_files[i][2], P.parsed_files[i][2].methods), i + 1)

\* _analyze_type_references, from the i-th parsed file on
RECURSIVE analyze_type_references(_, _)
analyze_type_references(P, i) ==
    IF i > Len(P.parsed_files) THEN P
    ELSE LET java_class == P.parsed_files[i][2]
             class_id   == java_class.name
             inherits   == IF java_class.extends # None
                           THEN << <<class_id, java_class.extends>> >> ELSE <<>>
             implements == [k \in DOMAIN java_class.implements |->
                               <<class_id, java_class.implements[k]>>]
             imports    == [k \in DOMAIN java_class.imports |->
                               <<class_id, LastSegment(java_class.imports[k])>>]
         IN  analyze_type_references(
                 [P EXCEPT !.type_references = @ \o inherits \o implements \o imports],
                 i + 1)

\* parse_java_directory over files that parse to the given classes (one
\* class per file path), followed by the two analyses.
parse_java_directory(P, files) ==
    LET P1 == [P EXCEPT !.parsed_files = @ \o files]
    IN  analyze_type_references(analyze_method_calls(P1, 1), 1)

\* convert_to_code_nodes, from the i-th parsed file on: the class node,
\* then one node per method.
RECURSIVE convert_to_code_nodes_from(_, _)
convert_to_code_nodes_from(P, i) ==
    IF i > Len(P.parsed_files) THEN <<>>
    ELSE LET file_path  == P.parsed_files[i][1]
             java_class == P.parsed_files[i][2]
             class_node ==
                 CodeNode(java_class.package \o "." \o java_class.name, file_path,
                          "class", java_class.name, "class " \o java_class.name,
                          java_class.start_line, java_class.end_line)
             method_nodes ==
                 [k \in DOMAIN java_class.methods |->
                     LET method == java_class.methods[k]
                     IN  CodeNode(java_class.package \o "." \o java_class.name
                                      \o "." \o method.name,
                                  file_path, "method", method.name, method.body,
                                  method.start_line, method.end_line)]
         IN  <<class_node>> \o method_nodes \o convert_to_code_nodes_from(P, i + 1)

convert_to_code_nodes(P) == convert_to_code_nodes_from(P, 1)

\* convert_to_code_relations: the calls (confidence 0.8), then the type
\* references (0.9), confidence in hundredths.
convert_to_code_relations(P) ==
    [i \in DOMAIN P.method_calls |->
        CodeRelation(P.method_calls[i][1], P.method_calls[i][2], "call", 80)]
    \o
    [i \in DOMAIN P.type_references |->
        CodeRelation(P.type_references[i][1], P.type_references[i][2], "reference", 90)]

\* Methods of the parsed classes: m overloaded, n calling m and B.n.
MethodInputs(class_name) ==
    { JavaMethod("m", class_name, <<>>, "b.n();"),
      JavaMethod("m", class_name, <<"int x">>, "return x;"),
      JavaMethod("n", class_name, <<>>, "this.m(1); B.n();") }

\* Classes a file can parse to: in the default package or in package p,
\* with at most MaxMethods methods of different signatures, with or
\* without a superclass and an import.
ClassInputs ==
    UNION {
        {JavaClass(name, package, methods, imports, extends) :
            package \in {"", "p"},
            methods \in {ms \in UNION {[1..n -> MethodInputs(name)] : n \in 0..MaxMethods} :
                            NoDuplicates(ms)},
            imports \in {<<>>, <<"q.C">>}, extends \in {None, "B"}} :
        name \in {"A", "B"}}

\* Repositories: one file, or a first file and a second one holding B.
RepoFiles ==
    {<< <<"A.java", c>> >> : c \in ClassInputs}
    \cup
    {<< <<"A.java", c>>, <<"B.java", JavaClass("B", package, <<>>, <<>>, None)>> >> :
        c \in ClassInputs, package \in {"", "p"}}

\* process_java_repository up to the conversions (main.py lines 60-71), as
\* the first call on a new system: the parser, still empty, parses the
\* directory and hands over nodes and relations.
ParseRepository ==
    /\ pc = Idle
    /\ ret.op = "init"
    /\ \E files \in RepoFiles :
          LET P == parse_java_directory(JavaCodeParser, files)
          IN  ret' = [op |-> "parse", parser |-> P,
                      code_nodes |-> convert_to_code_nodes(P),
                      code_relations |-> convert_to_code_relations(P)]
    /\ UNCHANGED <<code_nodes, code_relations, call_graph, pc, frame, encode_calls,
                   backend_vars>>

NextParser == ParseRepository

SpecParser == InitSystem /\ [][NextParser]_vars

----------------------------------------------------------------------------
(* interactive_query (src/src/main.py)                                     *)

\* Control is at input(">>> ") inside the `while True` loop.
Prompt == [fn |-> "interactive_query"]

\* JavaCodeEmbeddingSystem.analyze_dependencies
analyze_dependencies(G, node_id) == analyze_impact(G, node_id)

\* JavaCodeEmbeddingSystem.find_call_path
find_call_path(G, source_id, target_id) == get_call_path(G, source_id, target_id)

\* JavaCodeEmbeddingSystem.get_node_info: the node's fields without the
\* embedding, or None.
get_node_info(nodes, node_id) ==
    IF NodeIndex(nodes, node_id) # 0
    THEN LET node == nodes[NodeIndex(nodes, node_id)]
         IN  [id |-> node.id, file_path |-> node.file_path, node_type |-> node.node_type,
              name |-> node.name, code |-> node.code, start_line |-> node.start_line,
              end_line |-> node.end_line]
    ELSE Nil

\* What one pass of the loop body prints for a handler outcome: the
\* handler's exception lands in `except Exception` and is printed as an
\* error line; otherwise the branch prints its result, or its not-found
\* line when `if path` / `if info` is false.
Printed(command, out) ==
    IF out.raised # None THEN "error"
    ELSE IF command = "path" /\ out.value = <<>> THEN "not_found"
    ELSE IF command = "info" /\ out.value = Nil THEN "not_found"
    ELSE "result"

\* interactive_query is entered.
StartInteractive ==
    /\ pc = Idle
    /\ pc' = Prompt
    /\ ret' = [op |-> "interactive_query"]
    /\ UNCHANGED <<code_nodes, code_relations, call_graph, frame, encode_calls, backend_vars>>

\* One pass of the loop body for `deps <id>`
CommandDeps ==
    /\ pc = Prompt
    /\ \E node_id \in Ids :
          LET out == analyze_dependencies(call_graph, node_id)
          IN  ret' = [op |-> "command", command |-> "deps", parts |-> <<node_id>>,
                      out |-> out, printed |-> Printed("deps", out)]
    /\ pc' = Prompt
    /\ UNCHANGED <<code_nodes, code_relations, call_graph, frame, encode_calls, backend_vars>>

\* One pass of the loop body for `path <source> <target>`
CommandPath ==
    /\ pc = Prompt
    /\ \E source_id \in Ids, target_id \in Ids :
          LET out == find_call_path(call_graph, source_id, target_id)
          IN  ret' = [op |-> "command", command |-> "path",
                      parts |-> <<source_id, target_id>>,
                      out |-> out, printed |-> Printed("path", out)]
    /\ pc' = Prompt
    /\ UNCHANGED <<code_nodes, code_relations, call_graph, frame, encode_calls, backend_vars>>

\* One pass of the loop body for `info <id>`
CommandInfo ==
    /\ pc = Prompt
    /\ \E node_id \in Ids :
          LET out == Returned(get_node_info(code_nodes, node_id))
          IN  ret' = [op |-> "command", command |-> "info", parts |-> <<node_id>>,
                      out |-> out, printed |-> Printed("info", out)]
    /\ pc' = Prompt
    /\ UNCHANGED <<code_nodes, code_relations, call_graph, frame, encode_calls, backend_vars>>

\* One pass of the loop body for `search <text>`: search_similar_code with
\* its default top_k = 10.
CommandSearch ==
    /\ pc = Prompt
    /\ \E query_code \in Codes :
          LET db_out == Returned(vector_db_search(faiss, chroma, encode_code(query_code), 10))
              r == search_similar_code(code_nodes, query_code, 10, db_out)
          IN  /\ ret' = [op |-> "command", command |-> "search", parts |-> <<query_code>>,
                         out |-> r.out, printed |-> Printed("search", r.out)]
              /\ encode_calls' = r.encode_calls
    /\ pc' = Prompt
    /\ UNCHANGED <<code_nodes, code_relations, call_graph, frame, backend_vars>>

\* `quit`, or KeyboardInterrupt at the prompt: the loop is left.
CommandQuit ==
    /\ pc = Prompt
    /\ pc' = Idle
    /\ ret' = [op |-> "quit"]
    /\ UNCHANGED <<code_nodes, code_relations, call_graph, frame, encode_calls, backend_vars>>

NextInteractive ==
    \/ ProcessRepository
    \/ StartInteractive
    \/ CommandDeps
    \/ CommandPath
    \/ CommandInfo
    \/ CommandSearch
    \/ CommandQuit

SpecInteractive == InitSystem /\ [][NextInteractive]_vars

----------------------------------------------------------------------------
(* Properties                                                              *)

\* C1 (as stated): a vertex at true shortest hop distance d from the start
\* is in the result of get_upstream_dependencies / get_downstream_dependencies
\* if and only if d < max_depth.
C1_DepthBoundStrict ==
    TraversalStarted =>
        \A v \in Vertices(call_graph) :
            LET d == Distance(call_graph, ret.node_id, v, ret.op = "downstream")
            IN  d # Unreachable => (v \in ret.out.value <=> d < ret.max_depth)

\* C1 (amended): a vertex at true shortest hop distance d >= 1 from the start
\* is in the result if and only if d <= max_depth; a vertex that is not
\* reachable is never in it.
C1_DepthBound ==
    TraversalStarted =>
        \A v \in Ids \ {ret.node_id} :
            LET d == Distance(call_graph, ret.node_id, v, ret.op = "downstream")
            IN  v \in ret.out.value <=> (d # Unreachable /\ d <= ret.max_depth)

\* C1 witness: a traversal whose result holds a vertex at distance exactly
\* max_depth and leaves out a vertex at distance max_depth + 1.
C1_Witness ==
    /\ TraversalStarted
    /\ ret.max_depth >= 1
    /\ \E v, u \in Vertices(call_graph) :
          /\ Distance(call_graph, ret.node_id, v, ret.op = "downstream") = ret.max_depth
          /\ v \in ret.out.value
          /\ Distance(call_graph, ret.node_id, u, ret.op = "downstream") = ret.max_depth + 1
          /\ u \notin ret.out.value

\* C2: on a simple chain n0 -> n1 -> ... -> nk with no other edges,
\* get_downstream_dependencies(n0, m) is exactly {n1, ..., n_min(m,k)}.
C2_ChainDownstream ==
    (ret.op = "downstream" /\ ret.out.raised = None) =>
        \A p \in ChainOrders(call_graph) :
            p[1] = ret.node_id =>
                ret.out.value = {p[i + 1] : i \in 1..Min(ret.max_depth, Len(p) - 1)}

\* C2 witness: downstream("A", 2) = {B, C} on the chain A -> B -> C -> D.
C2_Witness ==
    /\ ret.op = "downstream" /\ ret.node_id = "A" /\ ret.max_depth = 2
    /\ EdgeSet(call_graph) = {<<"A", "B">>, <<"B", "C">>, <<"C", "D">>}
    /\ ret.out.value = {"B", "C"}

\* C3 (as stated): the result of a traversal never contains the start id.
C3_StartExcluded ==
    IsTraversal => ret.node_id \notin ret.out.value

\* C3 (amended): the result contains the start id if and only if the start
\* lies on a directed cycle of at most max_depth edges (so never in an
\* acyclic graph, never for max_depth = 0, never for an unknown id).
C3_StartOnlyOnCycle ==
    IsTraversal =>
        (ret.node_id \in ret.out.value <=>
            /\ HasNode(call_graph, ret.node_id)
            /\ ShortestCycle(call_graph, ret.node_id) # Unreachable
            /\ ShortestCycle(call_graph, ret.node_id) <= ret.max_depth)

\* C3 witness: an upstream traversal from a vertex of a 3-cycle, deep enough
\* to come back to it.
C3_Witness ==
    /\ ret.op = "upstream"
    /\ HasNode(call_graph, ret.node_id)
    /\ ShortestCycle(call_graph, ret.node_id) = 3
    /\ ret.max_depth = 3
    /\ ret.node_id \in ret.out.value

\* C4: on every graph, cyclic ones included, a traversal that has started
\* returns, reads the neighbours of each vertex at most once, and returns a
\* list in which no id occurs twice.
C4_CycleSafe ==
    /\ (pc.fn # "idle") ~> (pc.fn = "idle")
    /\ [](pc.fn # "idle" => NoDuplicates(frame.expanded))
    /\ [](ret.op \in {"upstream", "downstream"} =>
              NoDuplicates(ret.expanded) /\ NoDuplicates(ret.out.value))

\* C4 witness: a traversal of the 3-cycle A -> B -> C -> A has returned all
\* three vertices after reading the neighbours of all three.
C4_Witness ==
    /\ ret.op \in {"upstream", "downstream"}
    /\ EdgeSet(call_graph) = {<<"A", "B">>, <<"B", "C">>, <<"C", "A">>}
    /\ Len(ret.expanded) = 3
    /\ Len(ret.out.value) = 3

\* t can be reached from s along the edges (s reaches itself).
Reachable(G, s, t) ==
    /\ HasNode(G, s) /\ HasNode(G, t)
    /\ Distance(G, s, t, TRUE) # Unreachable

\* C5 (as stated): get_call_path returns the empty list and never raises
\* when target is unreachable from source or either id is no vertex.
C5_NoPathIsEmpty ==
    (ret.op = "call_path" /\ ~Reachable(call_graph, ret.source_id, ret.target_id)) =>
        (ret.out.raised = None /\ ret.out.value = <<>>)

\* C6: when target is reachable from source, get_call_path returns a
\* sequence from source to target along edges of the graph, of minimal
\* length; on the chain A -> B -> C -> D it is [A,B,C,D] for (A,D) and []
\* for (D,A).
C6_PathCorrect ==
    ret.op = "call_path" =>
        /\ Reachable(call_graph, ret.source_id, ret.target_id) =>
              LET path == ret.out.value
              IN  /\ ret.out.raised = None
                  /\ Len(path) >= 1
                  /\ path[1] = ret.source_id
                  /\ path[Len(path)] = ret.target_id
                  /\ \A i \in 1..(Len(path) - 1) :
                        <<path[i], path[i + 1]>> \in EdgeSet(call_graph)
                  /\ Len(path) - 1 =
                        Distance(call_graph, ret.source_id, ret.target_id, TRUE)
        /\ EdgeSet(call_graph) = {<<"A", "B">>, <<"B", "C">>, <<"C", "D">>} =>
              /\ (ret.source_id = "A" /\ ret.target_id = "D") =>
                    ret.out = Returned(<<"A", "B", "C", "D">>)
              /\ (ret.source_id = "D" /\ ret.target_id = "A") =>
                    ret.out = Returned(<<>>)

\* C6 witness: with both A -> B -> C and the shortcut A -> C in the graph,
\* the path returned for (A, C) is the one-edge path.
C6_Witness ==
    /\ ret.op = "call_path"
    /\ ret.source_id = "A" /\ ret.target_id = "C"
    /\ {<<"A", "B">>, <<"B", "C">>, <<"A", "C">>} \subseteq EdgeSet(call_graph)
    /\ ret.out = Returned(<<"A", "C">>)

\* C7 (as stated): analyze_impact on an id that is no vertex returns four
\* empty parts and never raises.
C7_ImpactOfUnknownIsEmpty ==
    (ret.op = "analyze_impact" /\ ~HasNode(call_graph, ret.node_id)) =>
        /\ ret.out.raised = None
        /\ ret.out.value.upstream = {}
        /\ ret.out.value.downstream = {}
        /\ ret.out.value.direct_callers = <<>>
        /\ ret.out.value.direct_callees = <<>>

\* C8: for an id that is no vertex, get_upstream_dependencies and
\* get_downstream_dependencies return the empty list without raising, and
\* the call leaves the store as it was.
C8_UnknownIdIsEmpty ==
    /\ [](IsTraversal /\ ~HasNode(call_graph, ret.node_id) => ret.out = Returned({}))
    /\ [][ret'.op \in {"upstream", "downstream"} /\ ret' # ret =>
              UNCHANGED <<call_graph, code_nodes, code_relations>>]_vars

\* C8 witness: an upstream query for an id unknown to a non-empty graph.
C8_Witness ==
    /\ ret.op = "upstream"
    /\ ret.max_depth >= 1
    /\ call_graph.adj # <<>>
    /\ ~HasNode(call_graph, ret.node_id)

\* C9 (as stated): search_similar_code invokes the embedding generator
\* exactly once per search.
C9_EncodeOnce ==
    ret.op = "search" => encode_calls = 1

\* C10 (as stated): when the backend's search raises, search_similar_code
\* still returns the locally ranked top-K list, the same it returns when the
\* backend does not fail, and nothing is raised to the caller.
C10_DegradeToLocal ==
    (ret.op = "search" /\ ret.backend_fails) =>
        /\ ret.out.raised = None
        /\ ret.out = search_similar_code(code_nodes, ret.query_code, ret.top_k,
                                          Returned(<<>>)).out

\* C11 (as stated): export_embeddings followed by load_embeddings into a
\* fresh store succeeds, and the fresh store has the node ids, the edges and
\* the per-node vectors of the exported store, whether or not its nodes
\* carry vectors.
C11_SnapshotRoundTrip ==
    ret.op = "export_embeddings" =>
        LET r == load_embeddings(EmptyStore, disk.snapshot)
        IN  /\ ret.out.raised = None
            /\ r.out.raised = None
            /\ {r.store.code_nodes[i].id : i \in DOMAIN r.store.code_nodes}
                   = {code_nodes[i].id : i \in DOMAIN code_nodes}
            /\ EdgeSet(r.store.call_graph) = EdgeSet(call_graph)
            /\ \A i \in DOMAIN code_nodes :
                   /\ NodeIndex(r.store.code_nodes, code_nodes[i].id) # 0
                   /\ r.store.code_nodes[NodeIndex(r.store.code_nodes, code_nodes[i].id)]
                          .embedding = code_nodes[i].embedding

\* C12 (as stated): when load_embeddings fails on a malformed document (a
\* missing key or field), code_nodes, code_relations and the call graph are
\* what they were before the call.
C12_AtomicImport ==
    (ret.op = "load_embeddings" /\ ret.out.raised \in {"KeyError", "TypeError"}) =>
        CurrentStore = ret.before

\* C13 (as stated): after load_embeddings completes, every imported node
\* that carries a vector can be fetched from the active vector backend.
C13_LoadUpsertsBackend ==
    (ret.op = "load_embeddings" /\ ret.out.raised = None) =>
        \A i \in DOMAIN ret.file.nodes :
            ret.file.nodes[i][2].embedding \notin {Nil, tolist(<<>>)} =>
                vector_db_get_node(faiss, chroma, ret.file.nodes[i][1]) # Nil

C15_ImpactParts ==
    (ret.op = "analyze_impact" /\ HasNode(call_graph, ret.node_id)) =>
        /\ ret.out.raised = None
        /\ ret.out.value.upstream
               = get_upstream_dependencies(call_graph, ret.node_id, 3).value
        /\ ret.out.value.downstream
               = get_downstream_dependencies(call_graph, ret.node_id, 3).value
        /\ ret.out.value.upstream = WithinHops(call_graph, ret.node_id, 3, FALSE)
        /\ ret.out.value.downstream = WithinHops(call_graph, ret.node_id, 3, TRUE)
        /\ NoDuplicates(ret.out.value.direct_callers)
        /\ NoDuplicates(ret.out.value.direct_callees)
        /\ Range(ret.out.value.direct_callers)
               = {e[1] : e \in {x \in EdgeSet(call_graph) : x[2] = ret.node_id}}
        /\ Range(ret.out.value.direct_callees)
               = {e[2] : e \in {x \in EdgeSet(call_graph) : x[1] = ret.node_id}}
        /\ Range(ret.out.value.direct_callers) \subseteq ret.out.value.upstream
        /\ Range(ret.out.value.direct_callees) \subseteq ret.out.value.downstream

\* analyze_impact on the head of the chain A -> B -> C -> D: one direct
\* callee, three vertices downstream, the last of them 3 hops away.
C15_Witness ==
    /\ ret.op = "analyze_impact"
    /\ ret.node_id = "A"
    /\ EdgeSet(call_graph) = {<<"A", "B">>, <<"B", "C">>, <<"C", "D">>}
    /\ ret.out.raised = None
    /\ ret.out.value.direct_callees = <<"B">>
    /\ ret.out.value.downstream = {"B", "C", "D"}

NodeIds(nodes) == {nodes[i].id : i \in DOMAIN nodes}

\* C16: code_nodes never holds two nodes with one id; add_code_node always
\* completes and leaves under the id of its argument exactly that argument
\* (with the vector of its text), keeps every node stored under another id
\* as it was, and makes the stored ids the earlier ids plus that id (so the
\* stored ids are the distinct ids added so far); and total_nodes is the
\* number of distinct stored ids.
C16_OverwriteSemantics ==
    /\ [](/\ NoDuplicates([i \in DOMAIN code_nodes |-> code_nodes[i].id])
          /\ ret.op = "add_code_node" =>
                 /\ NodeIndex(code_nodes, ret.node.id) # 0
                 /\ code_nodes[NodeIndex(code_nodes, ret.node.id)]
                        = [ret.node EXCEPT !.embedding = encode_code(ret.node.code)]
          /\ ret.op = "get_statistics" =>
                 /\ ret.out.raised = None
                 /\ ret.out.value.total_nodes = Cardinality(NodeIds(code_nodes)))
    /\ [][ret'.op = "add_code_node" =>
             /\ NodeIds(code_nodes') = NodeIds(code_nodes) \cup {ret'.node.id}
             /\ \A i \in DOMAIN code_nodes :
                    code_nodes[i].id # ret'.node.id =>
                        /\ NodeIndex(code_nodes', code_nodes[i].id) # 0
                        /\ code_nodes'[NodeIndex(code_nodes', code_nodes[i].id)]
                               = code_nodes[i]]_vars

\* Statistics read after A was added twice with different texts while B is
\* stored too: two nodes, A holding the later text.
C16_Witness ==
    /\ ret.op = "get_statistics"
    /\ ret.out.value.total_nodes = 2
    /\ NodeIds(code_nodes) = {"A", "B"}
    /\ code_nodes[1].id = "A"
    /\ code_nodes[1].code = "c2"

\* C17 (as stated): relations with the same source and target and different
\* kinds are distinct edges: the adjacency has an edge of each kind, and
\* total_edges counts each (source, target, kind) once.
C17_ParallelEdgesKept ==
    /\ \A i \in DOMAIN code_relations :
           \E j \in DOMAIN call_graph.adj :
               /\ call_graph.adj[j].source = code_relations[i].source_id
               /\ call_graph.adj[j].target = code_relations[i].target_id
               /\ call_graph.adj[j].relation_type = code_relations[i].relation_type
    /\ ret.op = "get_statistics" =>
           ret.out.value.total_edges =
               Cardinality({<<code_relations[i].source_id, code_relations[i].target_id,
                              code_relations[i].relation_type>> :
                                i \in DOMAIN code_relations})

\* C18: add_code_relation completes whatever the store knows of its
\* endpoints: the relation is the last of code_relations and both endpoints
\* are vertices joined by an edge; and every traversal returns without
\* raising the vertices within max_depth hops, whether or not code_nodes
\* has a node for them (or for the start).
C18_DanglingEndpoints ==
    /\ ret.op = "add_code_relation" =>
           LET relation == code_relations[Len(code_relations)]
           IN  /\ HasNode(call_graph, relation.source_id)
               /\ HasNode(call_graph, relation.target_id)
               /\ HasEdge(call_graph, relation.source_id, relation.target_id)
    /\ IsTraversal =>
           /\ ret.out.raised = None
           /\ HasNode(call_graph, ret.node_id) =>
                  ret.out.value = WithinHops(call_graph, ret.node_id, ret.max_depth,
                                             ret.op = "downstream")

\* A downstream traversal from B, for which no CodeNode exists, that
\* returns C, for which none exists either, while A has one.
C18_Witness ==
    /\ ret.op = "downstream"
    /\ ret.node_id = "B"
    /\ NodeIds(code_nodes) = {"A"}
    /\ ret.out = Returned({"C"})

WithVector(nodes) == SelectSeq(nodes, LAMBDA node : node.embedding # NoVector)

\* C19: add_embeddings skips the nodes without a vector.  On FAISS it never
\* raises, the index and the tables grow by exactly the nodes of the batch
\* that carry a vector, in order, and the earlier slots stay as they were.
\* On Chroma it raises only when two nodes that carry a vector share an id,
\* and otherwise the collection gains exactly the ids of the nodes that
\* carry a vector, earlier records staying as they were.  On both, every
\* node that carries a vector can be fetched after a call that returned,
\* and a batch without any vector changes nothing and raises nothing.
C19_VectorlessSkipped ==
    /\ [](ret.op = "add_embeddings" =>
             LET valid == WithVector(ret.nodes)
             IN  /\ faiss # Nil => ret.out.raised = None
                 /\ ret.out.raised # None =>
                        ~NoDuplicates([i \in DOMAIN valid |-> valid[i].id])
                 /\ valid = <<>> => ret.out.raised = None
                 /\ ret.out.raised = None =>
                        \A i \in DOMAIN valid :
                            vector_db_get_node(faiss, chroma, valid[i].id) # Nil)
    /\ [][ret'.op = "add_embeddings" =>
             LET valid == WithVector(ret'.nodes)
             IN  /\ valid = <<>> => UNCHANGED <<faiss, chroma, disk>>
                 /\ faiss # Nil =>
                        /\ faiss'.next_index = faiss.next_index + Len(valid)
                        /\ faiss'.index =
                               faiss.index \o [i \in DOMAIN valid |-> valid[i].embedding]
                        /\ DOMAIN faiss'.node_metadata =
                               DOMAIN faiss.node_metadata
                                   \cup (faiss.next_index..(faiss'.next_index - 1))
                        /\ \A k \in DOMAIN faiss.node_metadata :
                               faiss'.node_metadata[k] = faiss.node_metadata[k]
                        /\ \A i \in DOMAIN valid :
                               faiss'.node_metadata[faiss.next_index + i - 1] = valid[i]
                 /\ chroma # Nil =>
                        /\ \A i \in DOMAIN chroma.collection :
                               chroma'.collection[i] = chroma.collection[i]
                        /\ {chroma'.collection[i].id : i \in DOMAIN chroma'.collection}
                               = {chroma.collection[i].id : i \in DOMAIN chroma.collection}
                                 \cup (IF ret'.out.raised = None
                                       THEN {valid[i].id : i \in DOMAIN valid} ELSE {})
            ]_vars

\* A FAISS batch of a node without a vector and a node with one: the second
\* can be fetched, the first cannot, one slot was used.
C19_Witness ==
    /\ ret.op = "add_embeddings"
    /\ faiss # Nil
    /\ Len(ret.nodes) = 2
    /\ ret.nodes[1].id = "A" /\ ret.nodes[1].embedding = NoVector
    /\ ret.nodes[2].id = "B" /\ ret.nodes[2].embedding # NoVector
    /\ FAISS_get_node(faiss, "A") = Nil
    /\ FAISS_get_node(faiss, "B") = ret.nodes[2]
    /\ faiss.next_index = 1

\* C20: FAISS delete_node never raises; for an id that is no key of
\* id_to_index it changes nothing (node_metadata, id_to_index, index_to_id,
\* next_index, the index, the files); and after any delete_node the id is
\* no key of id_to_index, so a second delete_node of it is of that kind.
C20_DeleteIdempotent ==
    /\ [](ret.op = "delete_node" =>
             /\ ret.out.raised = None
             /\ ret.node_id \notin DOMAIN faiss.id_to_index
             /\ FAISS_delete_node(faiss, disk, ret.node_id)
                    = [out |-> Returned(None), faiss |-> faiss, disk |-> disk])
    /\ [][(ret'.op = "delete_node" /\ ~ret'.stored) =>
              /\ faiss'.node_metadata = faiss.node_metadata
              /\ faiss'.id_to_index = faiss.id_to_index
              /\ faiss'.index_to_id = faiss.index_to_id
              /\ faiss'.next_index = faiss.next_index
              /\ UNCHANGED <<faiss, disk>>]_vars

\* delete_node of an id that is not stored, on an index that holds another
\* node and has lost one before.
C20_Witness ==
    /\ ret.op = "delete_node"
    /\ ~ret.stored
    /\ faiss.next_index = 2
    /\ DOMAIN faiss.id_to_index = {"B"}
    /\ DOMAIN faiss.node_metadata = {1}

\* C21: the number of vectors of a FAISS index (next_index) never decreases
\* over add_embeddings, update_node, delete_node and restarts: an
\* add_embeddings call raises it by the number of vector-carrying nodes of
\* the batch and gives each of them a slot number no earlier call handed
\* out, and a delete_node call leaves it as it is, so an add followed by a
\* delete of the same id leaves it strictly larger.
C21_SlotsNeverReused ==
    /\ [](faiss.next_index = Len(faiss.index))
    /\ [][/\ faiss'.next_index >= faiss.next_index
          /\ Len(faiss'.index) >= Len(faiss.index)
          /\ ret'.op = "add_embeddings" =>
                /\ faiss'.next_index =
                      faiss.next_index + Len(WithVector(ret'.nodes))
                /\ \A index \in DOMAIN faiss'.node_metadata :
                      index < faiss.next_index =>
                          /\ index \in DOMAIN faiss.node_metadata
                          /\ faiss'.node_metadata[index] = faiss.node_metadata[index]
          /\ ret'.op \in {"delete_node", "update_node"} =>
                faiss'.next_index = faiss.next_index]_vars

\* A stored id was added and then deleted: its slot number is gone from the
\* tables and next_index still counts it.
C21_Witness ==
    /\ ret.op = "delete_node"
    /\ ret.stored
    /\ ret.node_id \notin DOMAIN faiss.id_to_index
    /\ faiss.next_index > Cardinality(DOMAIN faiss.node_metadata)
    /\ faiss.next_index = 2

\* C22: after update_node(node) on a FAISS backend that stores node.id,
\* get_node(node.id) returns the new node and every search ranks node.id by
\* the new vector: each result for node.id carries the inner product of the
\* query with node.embedding.
C22_UpdateReplacesVector ==
    (ret.op = "update_node" /\ ret.stored /\ ret.node.embedding # NoVector) =>
        /\ FAISS_get_node(faiss, ret.node.id) = ret.node
        /\ \A query_code \in Codes :
              LET query_embedding == encode_code(query_code)
                  results == FAISS_search(faiss, query_embedding, faiss.next_index)
              IN  \A i \in DOMAIN results :
                      results[i][1] = ret.node.id =>
                          results[i][2] = Dot(query_embedding, ret.node.embedding)

\* C26: on a FAISS backend, after delete_node(id), whatever was added
\* before (the same id more than once included), get_node(id) is None, no
\* entry of get_all_nodes has that id and no search returns it.
C26_DeletedIdIsGone ==
    ret.op = "delete_node" =>
        /\ FAISS_get_node(faiss, ret.node_id) = Nil
        /\ ret.node_id \notin NodeIds(FAISS_get_all_nodes(faiss))
        /\ \A query_code \in Codes, top_k \in 1..MaxSlots :
              LET results == FAISS_search(faiss, encode_code(query_code), top_k)
              IN  \A i \in DOMAIN results : results[i][1] # ret.node_id

\* C27: on a FAISS backend id_to_index and index_to_id are mutually inverse
\* bijections over the keys of node_metadata, get_all_nodes holds at most
\* one entry per id and a search lists each id at most once, also after a
\* stored id was added again.
C27_TablesAreInverse ==
    /\ DOMAIN faiss.index_to_id = DOMAIN faiss.node_metadata
    /\ \A index \in DOMAIN faiss.index_to_id :
          /\ faiss.index_to_id[index] \in DOMAIN faiss.id_to_index
          /\ faiss.id_to_index[faiss.index_to_id[index]] = index
    /\ \A id \in DOMAIN faiss.id_to_index :
          /\ faiss.id_to_index[id] \in DOMAIN faiss.index_to_id
          /\ faiss.index_to_id[faiss.id_to_index[id]] = id
    /\ LET nodes == FAISS_get_all_nodes(faiss)
       IN  NoDuplicates([i \in DOMAIN nodes |-> nodes[i].id])
    /\ \A query_code \in Codes, top_k \in 1..MaxSlots :
          LET results == FAISS_search(faiss, encode_code(query_code), top_k)
          IN  NoDuplicates([i \in DOMAIN results |-> results[i][1]])

\* C28: a FAISSInterface constructed from the files an earlier instance
\* wrote stores exactly the ids the earlier instance stored after its last
\* operation; an id whose delete_node was the last operation is absent.
C28_ReloadKeepsStoredIds ==
    [][ret'.op = "__init__" =>
          /\ DOMAIN faiss'.id_to_index = DOMAIN faiss.id_to_index
          /\ NodeIds(FAISS_get_all_nodes(faiss')) = NodeIds(FAISS_get_all_nodes(faiss))]_vars

\* C30: load_embeddings is idempotent: a second load of the snapshot that
\* was just loaded without error leaves the node set, the relation
\* collection and the total_nodes, total_relations and total_edges counts
\* of get_statistics as they were after the first load.
C30_LoadIdempotent ==
    [][(/\ ret.op = "load_embeddings"
        /\ ret.out.raised = None
        /\ ret'.op = "load_embeddings"
        /\ ret'.file = ret.file
        /\ ret'.out.raised = None) =>
          LET once  == get_statistics(CurrentStore)
              twice == get_statistics(Store(code_nodes', code_relations', call_graph'))
          IN  /\ code_nodes' = code_nodes
              /\ code_relations' = code_relations
              /\ twice.total_nodes = once.total_nodes
              /\ twice.total_relations = once.total_relations
              /\ twice.total_edges = once.total_edges]_vars

\* An embedder that is only given relations and asked for dependencies.
NextOrder ==
    \/ AddCodeRelation
    \/ Upstream
    \/ Downstream

SpecOrder == Init /\ [][NextOrder]_vars

\* The orders in which a list of n relations can be inserted
InsertionOrders(n) ==
    {order \in [1..n -> 1..n] : \A i, j \in 1..n : order[i] = order[j] => i = j}

\* The call graph after add_code_relation on each relation of the list, in
\* list order, starting from an empty embedder.
RECURSIVE GraphAfter(_, _)
GraphAfter(G, relations) ==
    IF relations = <<>> THEN G
    ELSE GraphAfter(GraphAddEdge(G, Head(relations).source_id, Head(relations).target_id,
                                 Head(relations).relation_type, Head(relations).confidence),
                    Tail(relations))

\* C25: for a fixed set of edges the set get_upstream_dependencies(id, k)
\* or get_downstream_dependencies(id, k) returns is the same for every
\* order in which the edges were inserted.
C25_InsertionOrderIrrelevant ==
    IsTraversal =>
        \A order \in InsertionOrders(Len(code_relations)) :
            LET relations == [i \in DOMAIN code_relations |-> code_relations[order[i]]]
                G == GraphAfter(EmptyGraph, relations)
            IN  /\ EdgeSet(G) = EdgeSet(call_graph)
                /\ ret.op = "upstream" =>
                      get_upstream_dependencies(G, ret.node_id, ret.max_depth) = ret.out
                /\ ret.op = "downstream" =>
                      get_downstream_dependencies(G, ret.node_id, ret.max_depth) = ret.out

\* A traversal over a graph whose queried vertex has two neighbours that
\* some other insertion order lists the other way round.
C25_Witness ==
    /\ IsTraversal
    /\ ret.max_depth >= 2
    /\ Cardinality(ret.out.value) >= 2
    /\ \E order \in InsertionOrders(Len(code_relations)) :
          LET G == GraphAfter(EmptyGraph,
                              [i \in DOMAIN code_relations |-> code_relations[order[i]]])
          IN  \/ Predecessors(G, ret.node_id) # Predecessors(call_graph, ret.node_id)
              \/ Successors(G, ret.node_id) # Successors(call_graph, ret.node_id)

\* C24: convert_to_code_nodes returns no two nodes with the same id, also
\* for a class that declares several methods of the same name.
C24_NodeIdsUnique ==
    ret.op = "parse" =>
        NoDuplicates([i \in DOMAIN ret.code_nodes |-> ret.code_nodes[i].id])

\* C29: every relation convert_to_code_relations returns has as source_id
\* the id of a node convert_to_code_nodes returns for the same parsed
\* classes.
C29_RelationSourcesAreNodes ==
    ret.op = "parse" =>
        \A i \in DOMAIN ret.code_relations :
            ret.code_relations[i].source_id \in NodeIds(ret.code_nodes)

\* C23: in the interactive loop a deps, path or info command given an id
\* that is not in the graph, and any search command, leaves the loop
\* running and prints a not-found or empty result, never an error.
C23_MissingIdIsNotAnError ==
    (/\ ret.op = "command"
     /\ \/ ret.command = "search"
        \/ \E i \in DOMAIN ret.parts : ~HasNode(call_graph, ret.parts[i])) =>
        /\ pc = Prompt
        /\ ret.printed # "error"

====
